---- MODULE Spec2Model ----
(***************************************************************************)
(* Model of the game-state reducer of the set-based variant (App: update   *)
(* and the player / set / word / game / play / reset operations), with the *)
(* Application State as one record.  The updater handed to update() is     *)
(* applied within the operation that hands it over, so that guessLetter    *)
(* returns the report its updater computed.                                *)
(*                                                                         *)
(* JavaScript arrays are 0-based: currentPuzzleIndex and the reported      *)
(* positions keep their 0-based values, and puzzles[currentPuzzleIndex] is *)
(* element currentPuzzleIndex + 1 of the TLA+ sequence.                    *)
(* A text is a sequence of one-character strings.                          *)
(* createdAt (Date.now()) is read by no operation and is left out of the   *)
(* records.                                                                *)
(*                                                                         *)
(* usePersistedState keeps the state in localStorage: the item under       *)
(* STORAGE_KEY is loaded through migrateToV1 when the App mounts and is    *)
(* written by an effect after every render with a new state.  A parsed     *)
(* JSON object is a record of the keys it holds.  The text functions of    *)
(* lib/normalize and the controls of GameView and AdminView, with the      *)
(* conditions under which they are rendered and enabled, are modelled next *)
(* to the operations they call.                                            *)
(***************************************************************************)
EXTENDS Integers, Sequences, FiniteSets, TLC

VARIABLES
    state,          \* the AppStateV1 held by usePersistedState
    result,         \* the report returned by the last guessLetter call
    lastOp,         \* the operation that produced this state, with its arguments
    nextId,         \* how many ids id(prefix) has produced, per prefix
    firstReport,    \* history: the report of the first guess of each letter on each puzzle of this game
    selectedMissing, \* history: selectSet was once called with an id of no set in sets
    stored,         \* the item of localStorage under STORAGE_KEY
    setItemThrows,  \* localStorage.setItem throws (private mode, quota exceeded)
    mounted,        \* the App component is mounted: its state exists and takes updates
    queue,          \* what was handed to setState since the last render, in this order
    everSolved      \* history: the ids of the words the one-bank solvePuzzle has marked used

vars == <<state, result, lastOp, nextId, firstReport, selectedMissing,
          stored, setItemThrows, mounted, queue, everSolved>>

----------------------------------------------------------------------------
(* Bounds of the model. *)

MaxIds == 2         \* Spec: calls of id() in a session, over all prefixes
MaxGameWords == 2   \* SpecGame: words added in a session
MaxScore == 1       \* |score| stays within this
MaxBankSets == 2    \* SpecBank: sets created in a session
MaxBankWords == 3   \* SpecBank: words added in a session
MaxScorePlayers == 2 \* SpecScore: players added in a session
MaxScoreWords == 2  \* SpecScore: words added in a session
MaxStoredWords == 2 \* SpecLoad: words of a stored value
MaxPhraseLen == 3   \* SpecText: characters of a phrase
MaxUISets == 2      \* SpecUI: sets created in a session
MaxUIWords == 2     \* SpecUI: words added in a session
MaxReplayWords == 2 \* SpecReplay: words added in a session
MaxQueue == 2       \* SpecBatch: calls of setState between two renders
MaxBatchPlayers == 2 \* SpecBatch: players added in a session

Names == {"n"}
Themes == {"th"}
Deltas == {-1, 1}
Directions == {"up", "down"}

\* "CAT" and "To t": upper and lower case of one letter, a repeated letter, a space.
Texts == { <<"C", "A", "T">>, <<"T", "o", " ", "t">> }

\* The text of the words added in SpecBank.
BankTexts == { <<"C", "A", "T">> }

\* Letters handed to guessLetter: in both texts in either case, in neither.
Letters == {"t", "T", "z"}

\* Letters handed to guessLetter in SpecGame: in one text and not in the other.
GameLetters == {"o", "O"}

----------------------------------------------------------------------------
(* JavaScript values. *)

Undefined == "undefined"

\* String.prototype.toLowerCase on one character.
toLowerCase(ch) ==
    CASE ch = "A" -> "a"
      [] ch = "C" -> "c"
      [] ch = "O" -> "o"
      [] ch = "T" -> "t"
      [] ch = "Z" -> "z"
      [] OTHER -> ch

\* !x for a string-or-undefined x: undefined and "" are falsy.
Falsy(x) == x = Undefined \/ x = ""

\* id(prefix): a fresh identifier; the n-th call for a prefix yields prefix_n.
id(prefix, n) == prefix \o "_" \o ToString(n)

\* ids that id(prefix) has produced so far
Generated(prefix, n) == { id(prefix, k) : k \in 1..(n - 1) }

\* an id that id(prefix) never produces
Foreign(prefix) == id(prefix, 0)

----------------------------------------------------------------------------
(* Array helpers. *)

Range(s) == { s[i] : i \in 1..Len(s) }

Includes(s, x) == \E i \in 1..Len(s) : s[i] = x

\* findIndex((w) => w.id === wordId): 0-based, the first match, -1 when nothing matches
FindIndexById(s, wordId) ==
    IF \E i \in 1..Len(s) : s[i].id = wordId
    THEN (CHOOSE i \in 1..Len(s) :
            s[i].id = wordId /\ \A j \in 1..(i - 1) : s[j].id # wordId) - 1
    ELSE -1

\* Array.prototype.sort((a, b) => a.order - b.order): a stable sort by order
RECURSIVE InsertByOrder(_, _)
InsertByOrder(sorted, w) ==
    IF sorted = <<>> THEN <<w>>
    ELSE IF Head(sorted).order <= w.order
         THEN <<Head(sorted)>> \o InsertByOrder(Tail(sorted), w)
         ELSE <<w>> \o sorted

RECURSIVE SortByOrder(_)
SortByOrder(s) ==
    IF s = <<>> THEN <<>>
    ELSE InsertByOrder(SortByOrder(SubSeq(s, 1, Len(s) - 1)), s[Len(s)])

\* reduce((max, w) => Math.max(max, w.order), 0)
RECURSIVE MaxOrder(_)
MaxOrder(s) ==
    IF s = <<>> THEN 0
    ELSE LET m == MaxOrder(Tail(s))
         IN IF Head(s).order > m THEN Head(s).order ELSE m

----------------------------------------------------------------------------
(* The state. *)

defaultState ==
    [ version |-> 1,
      players |-> <<>>,
      activePlayerId |-> Undefined,
      sets |-> <<>>,
      words |-> <<>>,
      activeSetId |-> Undefined,
      gameStatus |-> "setup",
      currentPuzzleIndex |-> 0,
      puzzles |-> <<>> ]

NoResult == [correct |-> FALSE, positions |-> <<>>]

SetIds(s) == { s.sets[i].id : i \in 1..Len(s.sets) }

\* s.puzzles[s.currentPuzzleIndex] is defined
HasCurrent(s) ==
    s.currentPuzzleIndex >= 0 /\ s.currentPuzzleIndex < Len(s.puzzles)

Current(s) == s.puzzles[s.currentPuzzleIndex + 1]

----------------------------------------------------------------------------
(* The updater functions handed to update(): state -> state. *)

addPlayerFn(s, name, newId) ==
    LET newPlayer == [id |-> newId, name |-> name, score |-> 0]
    IN  [s EXCEPT !.players = Append(s.players, newPlayer)]

removePlayerFn(s, playerId) ==
    [s EXCEPT !.players = SelectSeq(s.players, LAMBDA p : p.id # playerId)]

\* Mutant: the score never goes below zero.
adjustScoreFn_floorsAtZero(s, playerId, delta) ==
    [s EXCEPT !.players =
        [i \in 1..Len(s.players) |->
            LET p == s.players[i]
            IN  IF p.id = playerId
                THEN [p EXCEPT !.score = IF p.score + delta < 0 THEN 0 ELSE p.score + delta]
                ELSE p]]

adjustScoreFn(s, playerId, delta) ==
    [s EXCEPT !.players =
        [i \in 1..Len(s.players) |->
            LET p == s.players[i]
            IN  IF p.id = playerId THEN [p EXCEPT !.score = p.score + delta] ELSE p]]

\* Mutant: activeSetId is left as it is.
createSetFn_neverActivates(s, name, newId) ==
    LET newSet == [id |-> newId, name |-> name]
    IN  [s EXCEPT !.sets = Append(s.sets, newSet)]

createSetFn(s, name, newId) ==
    LET newSet == [id |-> newId, name |-> name]
    IN  [s EXCEPT !.sets = Append(s.sets, newSet),
                  \* s.activeSetId ?? newSet.id: only undefined is nullish
                  !.activeSetId = IF s.activeSetId = Undefined THEN newSet.id
                                  ELSE s.activeSetId]

\* Mutant: the words of the deleted set are kept.
deleteSetFn_noCascade(s, setId) ==
    LET newSets == SelectSeq(s.sets, LAMBDA x : x.id # setId)
        newActiveSetId ==
            IF s.activeSetId = setId
            THEN (IF newSets # <<>> THEN newSets[1].id ELSE Undefined)
            ELSE s.activeSetId
    IN  [s EXCEPT !.sets = newSets, !.activeSetId = newActiveSetId]

\* Mutant: activeSetId is kept when the active set is deleted.
deleteSetFn_keepsActive(s, setId) ==
    LET newSets == SelectSeq(s.sets, LAMBDA x : x.id # setId)
        newWords == SelectSeq(s.words, LAMBDA w : w.setId # setId)
    IN  [s EXCEPT !.sets = newSets, !.words = newWords]

\* Mutant: every word is removed with the set.
deleteSetFn_dropsAllWords(s, setId) ==
    LET newSets == SelectSeq(s.sets, LAMBDA x : x.id # setId)
        newActiveSetId ==
            IF s.activeSetId = setId
            THEN (IF newSets # <<>> THEN newSets[1].id ELSE Undefined)
            ELSE s.activeSetId
    IN  [s EXCEPT !.sets = newSets, !.words = <<>>, !.activeSetId = newActiveSetId]

\* Mutant: the first remaining set becomes active whichever set is deleted.
deleteSetFn_alwaysReselects(s, setId) ==
    LET newSets == SelectSeq(s.sets, LAMBDA x : x.id # setId)
        newWords == SelectSeq(s.words, LAMBDA w : w.setId # setId)
        newActiveSetId == IF newSets # <<>> THEN newSets[1].id ELSE Undefined
    IN  [s EXCEPT !.sets = newSets, !.words = newWords, !.activeSetId = newActiveSetId]

deleteSetFn(s, setId) ==
    LET newSets == SelectSeq(s.sets, LAMBDA x : x.id # setId)
        newWords == SelectSeq(s.words, LAMBDA w : w.setId # setId)
        newActiveSetId ==
            IF s.activeSetId = setId
            THEN (IF newSets # <<>> THEN newSets[1].id ELSE Undefined)
            ELSE s.activeSetId
    IN  [s EXCEPT !.sets = newSets, !.words = newWords, !.activeSetId = newActiveSetId]

selectSetFn(s, setId) == [s EXCEPT !.activeSetId = setId]

\* Mutant: the order is taken from the words of all sets.
addWordFn_maxOfAllSets(s, text, theme, newId) ==
    IF Falsy(s.activeSetId) THEN s
    ELSE
        LET maxOrder == MaxOrder(s.words)
            entry == [id |-> newId, text |-> text, theme |-> theme,
                      setId |-> s.activeSetId, order |-> maxOrder + 1]
        IN  [s EXCEPT !.words = Append(s.words, entry)]

\* Mutant: the order is the number of words of the set plus 1.
addWordFn_countsWords(s, text, theme, newId) ==
    IF Falsy(s.activeSetId) THEN s
    ELSE
        LET setWords == SelectSeq(s.words, LAMBDA w : w.setId = s.activeSetId)
            entry == [id |-> newId, text |-> text, theme |-> theme,
                      setId |-> s.activeSetId, order |-> Len(setWords) + 1]
        IN  [s EXCEPT !.words = Append(s.words, entry)]

addWordFn(s, text, theme, newId) ==
    IF Falsy(s.activeSetId) THEN s
    ELSE
        LET setWords == SelectSeq(s.words, LAMBDA w : w.setId = s.activeSetId)
            maxOrder == MaxOrder(setWords)
            entry == [id |-> newId, text |-> text, theme |-> theme,
                      setId |-> s.activeSetId, order |-> maxOrder + 1]
        IN  [s EXCEPT !.words = Append(s.words, entry)]

deleteWordFn(s, wordId) ==
    [s EXCEPT !.words = SelectSeq(s.words, LAMBDA w : w.id # wordId)]

\* Mutant: the neighbour is looked for among the words of all sets.
moveWordFn_acrossSets(s, wordId, direction) ==
    IF ~\E i \in 1..Len(s.words) : s.words[i].id = wordId THEN s
    ELSE
        LET sorted == SortByOrder(s.words)
            idx == FindIndexById(sorted, wordId)
            swapIdx == IF direction = "up" THEN idx - 1 ELSE idx + 1
        IN  IF idx = -1 THEN s
            ELSE IF swapIdx < 0 \/ swapIdx >= Len(sorted) THEN s
            ELSE
                LET currentOrder == sorted[idx + 1].order
                    swapOrder == sorted[swapIdx + 1].order
                IN  [s EXCEPT !.words =
                        [i \in 1..Len(s.words) |->
                            LET w == s.words[i]
                            IN  IF w.id = wordId THEN [w EXCEPT !.order = swapOrder]
                                ELSE IF w.id = sorted[swapIdx + 1].id
                                     THEN [w EXCEPT !.order = currentOrder]
                                     ELSE w]]

\* Mutant: past either end of the set the move wraps around to the other end.
moveWordFn_wrapsAround(s, wordId, direction) ==
    IF ~\E i \in 1..Len(s.words) : s.words[i].id = wordId THEN s
    ELSE
        LET word == s.words[FindIndexById(s.words, wordId) + 1]
            setWords == SelectSeq(s.words, LAMBDA w : w.setId = word.setId)
            sorted == SortByOrder(setWords)
            idx == FindIndexById(sorted, wordId)
            swapIdx == IF direction = "up"
                       THEN (IF idx = 0 THEN Len(sorted) - 1 ELSE idx - 1)
                       ELSE (IF idx = Len(sorted) - 1 THEN 0 ELSE idx + 1)
        IN  IF idx = -1 THEN s
            ELSE
                LET currentOrder == sorted[idx + 1].order
                    swapOrder == sorted[swapIdx + 1].order
                IN  [s EXCEPT !.words =
                        [i \in 1..Len(s.words) |->
                            LET w == s.words[i]
                            IN  IF w.id = wordId THEN [w EXCEPT !.order = swapOrder]
                                ELSE IF w.id = sorted[swapIdx + 1].id
                                     THEN [w EXCEPT !.order = currentOrder]
                                     ELSE w]]

moveWordFn(s, wordId, direction) ==
    IF ~\E i \in 1..Len(s.words) : s.words[i].id = wordId THEN s
    ELSE
        LET word == s.words[FindIndexById(s.words, wordId) + 1]
            setWords == SelectSeq(s.words, LAMBDA w : w.setId = word.setId)
            sorted == SortByOrder(setWords)
            idx == FindIndexById(sorted, wordId)
            swapIdx == IF direction = "up" THEN idx - 1 ELSE idx + 1
        IN  IF idx = -1 THEN s
            ELSE IF swapIdx < 0 \/ swapIdx >= Len(sorted) THEN s
            ELSE
                LET currentOrder == sorted[idx + 1].order
                    swapOrder == sorted[swapIdx + 1].order
                IN  [s EXCEPT !.words =
                        [i \in 1..Len(s.words) |->
                            LET w == s.words[i]
                            IN  IF w.id = wordId THEN [w EXCEPT !.order = swapOrder]
                                ELSE IF w.id = sorted[swapIdx + 1].id
                                     THEN [w EXCEPT !.order = currentOrder]
                                     ELSE w]]

\* the PuzzleState startGame builds for a word
NewPuzzle(w) ==
    [wordId |-> w.id, revealedLetters |-> <<>>, wrongLetters |-> <<>>, solved |-> FALSE]

\* Mutant: a set without words starts a game all the same.
startGameFn_noEmptyCheck(s, setId) ==
    LET setWords == SortByOrder(SelectSeq(s.words, LAMBDA w : w.setId = setId))
        newPuzzles == [i \in 1..Len(setWords) |-> NewPuzzle(setWords[i])]
    IN  [s EXCEPT !.activeSetId = setId,
                  !.gameStatus = "playing",
                  !.currentPuzzleIndex = 0,
                  !.puzzles = newPuzzles]

\* Mutant: the words are taken in their sequence in words, not sorted by order.
startGameFn_unsorted(s, setId) ==
    LET setWords == SelectSeq(s.words, LAMBDA w : w.setId = setId)
    IN  IF Len(setWords) = 0 THEN s
        ELSE
            LET newPuzzles == [i \in 1..Len(setWords) |-> NewPuzzle(setWords[i])]
            IN  [s EXCEPT !.activeSetId = setId,
                          !.gameStatus = "playing",
                          !.currentPuzzleIndex = 0,
                          !.puzzles = newPuzzles]

\* Mutant: the set is made active before its words are looked at.
startGameFn_selectsFirst(s, setId) ==
    LET setWords == SortByOrder(SelectSeq(s.words, LAMBDA w : w.setId = setId))
    IN  IF Len(setWords) = 0 THEN [s EXCEPT !.activeSetId = setId]
        ELSE
            LET newPuzzles == [i \in 1..Len(setWords) |-> NewPuzzle(setWords[i])]
            IN  [s EXCEPT !.activeSetId = setId,
                          !.gameStatus = "playing",
                          !.currentPuzzleIndex = 0,
                          !.puzzles = newPuzzles]

\* Mutant: the game is made of the first word of the set alone.
startGameFn_firstWordOnly(s, setId) ==
    LET setWords == SortByOrder(SelectSeq(s.words, LAMBDA w : w.setId = setId))
    IN  IF Len(setWords) = 0 THEN s
        ELSE [s EXCEPT !.activeSetId = setId,
                       !.gameStatus = "playing",
                       !.currentPuzzleIndex = 0,
                       !.puzzles = <<NewPuzzle(setWords[1])>>]

startGameFn(s, setId) ==
    LET setWords == SortByOrder(SelectSeq(s.words, LAMBDA w : w.setId = setId))
    IN  IF Len(setWords) = 0 THEN s
        ELSE
            LET newPuzzles == [i \in 1..Len(setWords) |-> NewPuzzle(setWords[i])]
            IN  [s EXCEPT !.activeSetId = setId,
                          !.gameStatus = "playing",
                          !.currentPuzzleIndex = 0,
                          !.puzzles = newPuzzles]

\* Mutant: currentPuzzleIndex is left where the game stood.
endGameFn_keepsIndex(s) ==
    [s EXCEPT !.gameStatus = "ended", !.puzzles = <<>>]

\* Mutant: the scores are reset with the game.
endGameFn_resetsScores(s) ==
    [s EXCEPT !.gameStatus = "ended", !.puzzles = <<>>, !.currentPuzzleIndex = 0,
              !.players = [i \in 1..Len(s.players) |-> [s.players[i] EXCEPT !.score = 0]]]

endGameFn(s) ==
    [s EXCEPT !.gameStatus = "ended", !.puzzles = <<>>, !.currentPuzzleIndex = 0]

\* Mutant: the characters of the text are compared without lowercasing them.
Positions_caseSensitive(text, lower) ==
    SelectSeq([i \in 1..Len(text) |-> i - 1], LAMBDA idx : text[idx + 1] = lower)

\* The 0-based positions of text whose character equals lower, case-insensitively.
Positions(text, lower) ==
    SelectSeq([i \in 1..Len(text) |-> i - 1],
              LAMBDA idx : toLowerCase(text[idx + 1]) = lower)

\* Mutant: the already-guessed check looks for the letter as given, not lowercased.
guessLetterFn_checksRawLetter(s, letter) ==
    LET unchanged == [state |-> s, result |-> NoResult]
    IN  IF ~HasCurrent(s) THEN unchanged
        ELSE
        LET puzzle == Current(s)
            lower == toLowerCase(letter)
        IN  IF puzzle.solved THEN unchanged
            ELSE IF Includes(puzzle.revealedLetters, letter)
                    \/ Includes(puzzle.wrongLetters, letter) THEN unchanged
            ELSE IF ~\E i \in 1..Len(s.words) : s.words[i].id = puzzle.wordId THEN unchanged
            ELSE
            LET word == s.words[FindIndexById(s.words, puzzle.wordId) + 1]
                positions == Positions(word.text, lower)
                isCorrect == Len(positions) > 0
                newPuzzle ==
                    IF isCorrect
                    THEN [puzzle EXCEPT !.revealedLetters = Append(puzzle.revealedLetters, lower)]
                    ELSE [puzzle EXCEPT !.wrongLetters = Append(puzzle.wrongLetters, lower)]
            IN  [state |-> [s EXCEPT !.puzzles[s.currentPuzzleIndex + 1] = newPuzzle],
                 result |-> [correct |-> isCorrect, positions |-> positions]]

\* Mutant: a solved puzzle still takes letters.
guessLetterFn_ignoresSolved(s, letter) ==
    LET unchanged == [state |-> s, result |-> NoResult]
    IN  IF ~HasCurrent(s) THEN unchanged
        ELSE
        LET puzzle == Current(s)
            lower == toLowerCase(letter)
        IN  IF Includes(puzzle.revealedLetters, lower)
                    \/ Includes(puzzle.wrongLetters, lower) THEN unchanged
            ELSE IF ~\E i \in 1..Len(s.words) : s.words[i].id = puzzle.wordId THEN unchanged
            ELSE
            LET word == s.words[FindIndexById(s.words, puzzle.wordId) + 1]
                positions == Positions(word.text, lower)
                isCorrect == Len(positions) > 0
                newPuzzle ==
                    IF isCorrect
                    THEN [puzzle EXCEPT !.revealedLetters = Append(puzzle.revealedLetters, lower)]
                    ELSE [puzzle EXCEPT !.wrongLetters = Append(puzzle.wrongLetters, lower)]
            IN  [state |-> [s EXCEPT !.puzzles[s.currentPuzzleIndex + 1] = newPuzzle],
                 result |-> [correct |-> isCorrect, positions |-> positions]]

\* The updater of guessLetter together with the report it leaves in result.
\* Mutant: the letter is stored as it was typed.
guessLetterFn_storesRawLetter(s, letter) ==
    LET unchanged == [state |-> s, result |-> NoResult]
    IN  IF ~HasCurrent(s) THEN unchanged
        ELSE
        LET puzzle == Current(s)
            lower == toLowerCase(letter)
        IN  IF puzzle.solved THEN unchanged
            ELSE IF Includes(puzzle.revealedLetters, lower)
                    \/ Includes(puzzle.wrongLetters, lower) THEN unchanged
            ELSE IF ~\E i \in 1..Len(s.words) : s.words[i].id = puzzle.wordId THEN unchanged
            ELSE
            LET word == s.words[FindIndexById(s.words, puzzle.wordId) + 1]
                positions == Positions(word.text, lower)
                isCorrect == Len(positions) > 0
                newPuzzle ==
                    IF isCorrect
                    THEN [puzzle EXCEPT !.revealedLetters = Append(puzzle.revealedLetters, letter)]
                    ELSE [puzzle EXCEPT !.wrongLetters = Append(puzzle.wrongLetters, letter)]
            IN  [state |-> [s EXCEPT !.puzzles[s.currentPuzzleIndex + 1] = newPuzzle],
                 result |-> [correct |-> isCorrect, positions |-> positions]]

guessLetterFn(s, letter) ==
    LET unchanged == [state |-> s, result |-> NoResult]
    IN  IF ~HasCurrent(s) THEN unchanged
        ELSE
        LET puzzle == Current(s)
            lower == toLowerCase(letter)
        IN  IF puzzle.solved THEN unchanged
            ELSE IF Includes(puzzle.revealedLetters, lower)
                    \/ Includes(puzzle.wrongLetters, lower) THEN unchanged
            ELSE IF ~\E i \in 1..Len(s.words) : s.words[i].id = puzzle.wordId THEN unchanged
            ELSE
            LET word == s.words[FindIndexById(s.words, puzzle.wordId) + 1]
                positions == Positions(word.text, lower)
                isCorrect == Len(positions) > 0
                newPuzzle ==
                    IF isCorrect
                    THEN [puzzle EXCEPT !.revealedLetters = Append(puzzle.revealedLetters, lower)]
                    ELSE [puzzle EXCEPT !.wrongLetters = Append(puzzle.wrongLetters, lower)]
            IN  [state |-> [s EXCEPT !.puzzles[s.currentPuzzleIndex + 1] = newPuzzle],
                 result |-> [correct |-> isCorrect, positions |-> positions]]

\* Mutant: every puzzle is marked solved.
solvePuzzleFn_solvesAll(s) ==
    IF ~HasCurrent(s) THEN s
    ELSE IF Current(s).solved THEN s
    ELSE [s EXCEPT !.puzzles =
            [i \in 1..Len(s.puzzles) |-> [s.puzzles[i] EXCEPT !.solved = TRUE]]]

\* Mutant: solving a solved puzzle opens it again.
solvePuzzleFn_toggles(s) ==
    IF ~HasCurrent(s) THEN s
    ELSE [s EXCEPT !.puzzles[s.currentPuzzleIndex + 1].solved = ~@]

solvePuzzleFn(s) ==
    IF ~HasCurrent(s) THEN s
    ELSE IF Current(s).solved THEN s
    ELSE [s EXCEPT !.puzzles[s.currentPuzzleIndex + 1].solved = TRUE]

\* Mutant: the boundary test is off by one.
nextPuzzleFn_pastLast(s) ==
    IF s.currentPuzzleIndex >= Len(s.puzzles) THEN s
    ELSE [s EXCEPT !.currentPuzzleIndex = s.currentPuzzleIndex + 1]

nextPuzzleFn(s) ==
    IF s.currentPuzzleIndex >= Len(s.puzzles) - 1 THEN s
    ELSE [s EXCEPT !.currentPuzzleIndex = s.currentPuzzleIndex + 1]

\* Mutant: the boundary test is off by one.
prevPuzzleFn_belowFirst(s) ==
    IF s.currentPuzzleIndex < 0 THEN s
    ELSE [s EXCEPT !.currentPuzzleIndex = s.currentPuzzleIndex - 1]

prevPuzzleFn(s) ==
    IF s.currentPuzzleIndex <= 0 THEN s
    ELSE [s EXCEPT !.currentPuzzleIndex = s.currentPuzzleIndex - 1]

----------------------------------------------------------------------------
(* usePersistedState: the item of localStorage and the effect that saves.  *)
(* A JSON text is held as the value JSON.parse gives for it; an object is  *)
(* a record of the keys it has, and reading a key it has not gives         *)
(* undefined.                                                              *)

\* localStorage.getItem(key) returns null: nothing was ever saved
NoItem == [tag |-> "none"]

\* a text JSON.parse throws on
InvalidJson == [tag |-> "invalid"]

\* the text "null"
JsonNull == [tag |-> "null"]

\* the text of an object
JsonObject(o) == [tag |-> "object", value |-> o]

\* JSON.stringify(state): the keys whose value is undefined are left out
stringify(s) ==
    JsonObject([k \in DOMAIN s \ { o \in {"activePlayerId", "activeSetId"} : s[o] = Undefined }
                    |-> s[k]])

\* o[k] of JavaScript: undefined for a key the object has not
Get(o, k) == IF k \in DOMAIN o THEN o[k] ELSE Undefined

\* Mutant: a key of both objects keeps the value of the first one.
Spread_leftWins(a, b) == [k \in DOMAIN a \cup DOMAIN b |-> IF k \in DOMAIN a THEN a[k] ELSE b[k]]

\* { ...a, ...b }
Spread(a, b) == [k \in DOMAIN a \cup DOMAIN b |-> IF k \in DOMAIN b THEN b[k] ELSE a[k]]

\* Array.isArray(o[k]) ? o[k] : []
ArrayOrEmpty(o, k) == IF k \in DOMAIN o THEN o[k] ELSE <<>>

\* Mutant: the Default Set is made whenever a word has no setId, whatever sets there are.
SynthesizesDefaultSet_ignoresSets(raw) ==
    /\ raw # JsonNull
    /\ \E i \in 1..Len(ArrayOrEmpty(raw.value, "words")) :
            Falsy(Get(raw.value.words[i], "setId"))

\* wordsWithoutSet.length > 0 && sets.length === 0: migrateToV1 makes the Default Set
SynthesizesDefaultSet(raw) ==
    /\ raw # JsonNull
    /\ \E i \in 1..Len(ArrayOrEmpty(raw.value, "words")) :
            Falsy(Get(raw.value.words[i], "setId"))
    /\ Len(ArrayOrEmpty(raw.value, "sets")) = 0

\* { ...p, wrongLetters: p.wrongLetters ?? [] }
\* Mutant: every loaded puzzle starts with no wrong letters.
migratePuzzle_clearsWrongLetters(p) ==
    Spread(p, [wrongLetters |-> <<>>])

migratePuzzle(p) ==
    Spread(p, [wrongLetters |-> IF "wrongLetters" \in DOMAIN p THEN p.wrongLetters ELSE <<>>])

\* Mutant: a word without setId is left without a set.
migrateWord_leavesOrphans(w, fallback) ==
    Spread(w, [theme |-> IF Get(w, "theme") = Undefined THEN "" ELSE w.theme,
               setId |-> IF Get(w, "setId") = Undefined THEN "" ELSE w.setId])

\* { ...w, theme: w.theme ?? "", setId: w.setId ?? fallback }
migrateWord(w, fallback) ==
    Spread(w, [theme |-> IF Get(w, "theme") = Undefined THEN "" ELSE w.theme,
               setId |-> IF Get(w, "setId") = Undefined THEN fallback ELSE w.setId])

\* migrateToV1(raw), with newId the id that id("s") gives if it is called
migrateToV1(raw, newId) ==
    IF raw = JsonNull THEN defaultState
    ELSE
        LET asAny == raw.value
            rawPuzzles == ArrayOrEmpty(asAny, "puzzles")
            puzzles == [i \in 1..Len(rawPuzzles) |-> migratePuzzle(rawPuzzles[i])]
            rawSets == ArrayOrEmpty(asAny, "sets")
            rawWords == ArrayOrEmpty(asAny, "words")
            synthesize == SynthesizesDefaultSet(raw)
            defaultSet == [id |-> newId, name |-> "Default Set"]
            sets == IF synthesize THEN <<defaultSet>> ELSE rawSets
            activeSetId == IF synthesize THEN defaultSet.id ELSE Get(asAny, "activeSetId")
            \* sets[0]?.id || ""
            firstSetId == IF Len(sets) > 0 /\ ~Falsy(Get(sets[1], "id")) THEN sets[1].id ELSE ""
            words == [i \in 1..Len(rawWords) |->
                        migrateWord(rawWords[i],
                                    IF synthesize THEN defaultSet.id ELSE firstSetId)]
        IN  Spread(Spread(defaultState, asAny),
                   [players |-> ArrayOrEmpty(asAny, "players"),
                    sets |-> sets,
                    words |-> words,
                    activeSetId |-> activeSetId,
                    puzzles |-> puzzles,
                    gameStatus |-> IF "gameStatus" \in DOMAIN asAny THEN asAny.gameStatus
                                   ELSE "setup",
                    currentPuzzleIndex |-> IF "currentPuzzleIndex" \in DOMAIN asAny
                                           THEN asAny.currentPuzzleIndex ELSE 0])

\* The initializer of useState: getItem, JSON.parse and migrate in a try whose
\* catch returns defaultValue.
loadFn(item, newId) ==
    IF item = NoItem THEN defaultState
    ELSE IF item = InvalidJson THEN defaultState
    ELSE migrateToV1(item, newId)

\* Mutant: what setItem throws is not caught and unmounts the App.
saveEffect_uncaught(rendered) ==
    /\ mounted
    /\ stored' = IF rendered /\ ~setItemThrows THEN stringify(state') ELSE stored
    /\ mounted' = ~(rendered /\ setItemThrows)
    /\ UNCHANGED setItemThrows

\* The effect on [key, state], run after a render with a new state object:
\* setItem(key, JSON.stringify(state)) in a try whose catch ignores the error.
saveEffect(rendered) ==
    /\ mounted
    /\ stored' = IF rendered /\ ~setItemThrows THEN stringify(state') ELSE stored
    /\ mounted' = TRUE
    /\ UNCHANGED setItemThrows

----------------------------------------------------------------------------
(* The text functions (lib/normalize) and the mask of the word list.  The   *)
(* characters outside ASCII are written as ASCII stand-ins that no phrase  *)
(* of the model holds.                                                     *)

CurlyApostrophe == "~"  \* stands for U+2019, the right single quotation mark
BlockGlyph == "#"       \* stands for U+25A0, the glyph of maskPhrase
BulletGlyph == "*"      \* stands for U+2022, the glyph of maskText

\* the character classes of the regular expressions, on the characters of the model
LowerLetters == {"a", "c", "o", "t", "z"}
UpperLetters == {"A", "C", "O", "T", "Z"}
Digits == {"1", "2"}

\* \s
IsSpace(ch) == ch = " "

\* [a-z0-9]
IsLowerAlnum(ch) == ch \in LowerLetters \cup Digits

\* [A-Za-z0-9]
IsAlnum(ch) == ch \in LowerLetters \cup UpperLetters \cup Digits

RECURSIVE trimStart(_)
trimStart(text) ==
    IF text # <<>> /\ IsSpace(Head(text)) THEN trimStart(Tail(text)) ELSE text

RECURSIVE trimEnd(_)
trimEnd(text) ==
    IF text # <<>> /\ IsSpace(text[Len(text)])
    THEN trimEnd(SubSeq(text, 1, Len(text) - 1))
    ELSE text

\* String.prototype.trim
trim(text) == trimEnd(trimStart(text))

\* .replace(/\s+/g, " "): every run of white space becomes one space
RECURSIVE collapseWhitespace(_)
collapseWhitespace(text) ==
    IF text = <<>> THEN <<>>
    ELSE IF IsSpace(Head(text)) THEN <<" ">> \o collapseWhitespace(trimStart(Tail(text)))
    ELSE <<Head(text)>> \o collapseWhitespace(Tail(text))

\* toLowerCase, trim, the apostrophes unified, all but [a-z0-9\s] removed, white
\* space collapsed: in this order
normalizePhrase(input) ==
    LET lowered == [i \in 1..Len(input) |-> toLowerCase(input[i])]
        trimmed == trim(lowered)
        unified == [i \in 1..Len(trimmed) |->
                        IF trimmed[i] \in {CurlyApostrophe, "'"} THEN "'" ELSE trimmed[i]]
        stripped == SelectSeq(unified, LAMBDA ch : IsLowerAlnum(ch) \/ IsSpace(ch))
    IN  collapseWhitespace(stripped)

\* phrase.replace(/[A-Za-z0-9]/g, BlockGlyph)
maskPhrase(phrase) ==
    [i \in 1..Len(phrase) |-> IF IsAlnum(phrase[i]) THEN BlockGlyph ELSE phrase[i]]

\* AdminView: text.split("").map(char => char === " " ? " " : BulletGlyph).join("")
maskText(text) ==
    [i \in 1..Len(text) |-> IF text[i] = " " THEN " " ELSE BulletGlyph]

----------------------------------------------------------------------------
(* The operations: update(fn) replaces the state by fn(state). *)

Op(name, args) == [name |-> name, args |-> args]

Init ==
    /\ state = defaultState
    /\ result = NoResult
    /\ lastOp = Op("init", <<>>)
    /\ nextId = [p |-> 1, s |-> 1, w |-> 1]
    /\ firstReport = {}
    /\ selectedMissing = FALSE
    /\ queue = <<>>
    /\ everSolved = {}
    \* nothing was stored: the default state was loaded and saved by the first effect
    /\ stored = stringify(defaultState)
    /\ setItemThrows = FALSE
    /\ mounted = TRUE

\* calls of id() so far
IdsMade == (nextId.p - 1) + (nextId.s - 1) + (nextId.w - 1)

PlayerIdArgs == Generated("p", nextId.p) \cup {Foreign("p")}
SetIdArgs == Generated("s", nextId.s) \cup {Foreign("s")}
WordIdArgs == Generated("w", nextId.w) \cup {Foreign("w")}

addPlayer(name) ==
    /\ state' = addPlayerFn(state, name, id("p", nextId.p))
    /\ nextId' = [nextId EXCEPT !.p = @ + 1]
    /\ lastOp' = Op("addPlayer", <<name>>)
    /\ saveEffect(TRUE)
    /\ result' = NoResult
    /\ UNCHANGED <<firstReport, selectedMissing, everSolved, queue>>

removePlayer(playerId) ==
    /\ state' = removePlayerFn(state, playerId)
    /\ lastOp' = Op("removePlayer", <<playerId>>)
    /\ saveEffect(TRUE)
    /\ result' = NoResult
    /\ UNCHANGED <<nextId, firstReport, selectedMissing, everSolved, queue>>

adjustScore(playerId, delta) ==
    /\ \A i \in 1..Len(state.players) :
            state.players[i].id = playerId =>
                /\ state.players[i].score + delta <= MaxScore
                /\ state.players[i].score + delta >= -MaxScore
    /\ state' = adjustScoreFn(state, playerId, delta)
    /\ lastOp' = Op("adjustScore", <<playerId, delta>>)
    /\ saveEffect(TRUE)
    /\ result' = NoResult
    /\ UNCHANGED <<nextId, firstReport, selectedMissing, everSolved, queue>>

createSet(name) ==
    /\ state' = createSetFn(state, name, id("s", nextId.s))
    /\ nextId' = [nextId EXCEPT !.s = @ + 1]
    /\ lastOp' = Op("createSet", <<name>>)
    /\ saveEffect(TRUE)
    /\ result' = NoResult
    /\ UNCHANGED <<firstReport, selectedMissing, everSolved, queue>>

deleteSet(setId) ==
    /\ state' = deleteSetFn(state, setId)
    /\ lastOp' = Op("deleteSet", <<setId>>)
    /\ saveEffect(TRUE)
    /\ result' = NoResult
    /\ UNCHANGED <<nextId, firstReport, selectedMissing, everSolved, queue>>

selectSet(setId) ==
    /\ state' = selectSetFn(state, setId)
    /\ lastOp' = Op("selectSet", <<setId>>)
    /\ saveEffect(TRUE)
    /\ selectedMissing' = (selectedMissing \/ setId \notin SetIds(state))
    /\ UNCHANGED <<queue, everSolved>>
    /\ result' = NoResult
    /\ UNCHANGED <<nextId, firstReport>>

addWord(text, theme) ==
    /\ state' = addWordFn(state, text, theme, id("w", nextId.w))
    \* id("w") is called only past the activeSetId check
    /\ nextId' = IF Falsy(state.activeSetId) THEN nextId
                 ELSE [nextId EXCEPT !.w = @ + 1]
    /\ lastOp' = Op("addWord", <<text, theme>>)
    /\ saveEffect(~Falsy(state.activeSetId))
    /\ result' = NoResult
    /\ UNCHANGED <<firstReport, selectedMissing, everSolved, queue>>

deleteWord(wordId) ==
    /\ state' = deleteWordFn(state, wordId)
    /\ lastOp' = Op("deleteWord", <<wordId>>)
    /\ saveEffect(TRUE)
    /\ result' = NoResult
    /\ UNCHANGED <<nextId, firstReport, selectedMissing, everSolved, queue>>

moveWord(wordId, direction) ==
    /\ state' = moveWordFn(state, wordId, direction)
    /\ lastOp' = Op("moveWord", <<wordId, direction>>)
    /\ saveEffect(state' # state)
    /\ result' = NoResult
    /\ UNCHANGED <<nextId, firstReport, selectedMissing, everSolved, queue>>

startGame(setId) ==
    /\ state' = startGameFn(state, setId)
    /\ lastOp' = Op("startGame", <<setId>>)
    /\ saveEffect(\E i \in 1..Len(state.words) : state.words[i].setId = setId)
    \* a new game starts with new puzzles, none of them guessed on
    /\ firstReport' = IF \E i \in 1..Len(state.words) : state.words[i].setId = setId
                      THEN {} ELSE firstReport
    /\ result' = NoResult
    /\ UNCHANGED <<nextId, selectedMissing, everSolved, queue>>

endGame ==
    /\ state' = endGameFn(state)
    /\ lastOp' = Op("endGame", <<>>)
    /\ saveEffect(TRUE)
    /\ firstReport' = {}
    /\ result' = NoResult
    /\ UNCHANGED <<nextId, selectedMissing, everSolved, queue>>

guessLetter(letter) ==
    LET r == guessLetterFn(state, letter)
    IN  /\ state' = r.state
        /\ result' = r.result
        /\ lastOp' = Op("guessLetter", <<letter>>)
        /\ saveEffect(state' # state)
        /\ firstReport' =
                IF r.state # state
                THEN firstReport \cup
                        {[idx |-> state.currentPuzzleIndex,
                          letter |-> toLowerCase(letter),
                          report |-> r.result]}
                ELSE firstReport
        /\ UNCHANGED <<nextId, selectedMissing, everSolved, queue>>

solvePuzzle ==
    /\ state' = solvePuzzleFn(state)
    /\ lastOp' = Op("solvePuzzle", <<>>)
    /\ saveEffect(state' # state)
    /\ result' = NoResult
    /\ UNCHANGED <<nextId, firstReport, selectedMissing, everSolved, queue>>

nextPuzzle ==
    /\ state' = nextPuzzleFn(state)
    /\ lastOp' = Op("nextPuzzle", <<>>)
    /\ saveEffect(state' # state)
    /\ result' = NoResult
    /\ UNCHANGED <<nextId, firstReport, selectedMissing, everSolved, queue>>

prevPuzzle ==
    /\ state' = prevPuzzleFn(state)
    /\ lastOp' = Op("prevPuzzle", <<>>)
    /\ saveEffect(state' # state)
    /\ result' = NoResult
    /\ UNCHANGED <<nextId, firstReport, selectedMissing, everSolved, queue>>

\* window.confirm answers ok; a refusal returns before setState
resetAll(ok) ==
    /\ state' = IF ok THEN defaultState ELSE state
    /\ lastOp' = Op("resetAll", <<ok>>)
    /\ saveEffect(ok)
    /\ firstReport' = IF ok THEN {} ELSE firstReport
    /\ result' = NoResult
    /\ UNCHANGED <<nextId, selectedMissing, everSolved, queue>>

\* The App mounts: the state is loaded, and the first effect saves it.
load ==
    /\ ~mounted
    /\ state' = loadFn(stored, id("s", nextId.s))
    /\ nextId' = IF stored \notin {NoItem, InvalidJson} /\ SynthesizesDefaultSet(stored)
                 THEN [nextId EXCEPT !.s = @ + 1] ELSE nextId
    /\ lastOp' = Op("load", <<>>)
    /\ mounted' = TRUE
    /\ stored' = IF setItemThrows THEN stored ELSE stringify(state')
    /\ result' = NoResult
    /\ firstReport' = {}
    /\ UNCHANGED <<selectedMissing, everSolved, queue, setItemThrows>>

\* The page is left or reloaded: the App and its state are gone, the item stays.
unload ==
    /\ mounted
    /\ mounted' = FALSE
    /\ state' = defaultState
    /\ lastOp' = Op("unload", <<>>)
    /\ result' = NoResult
    /\ firstReport' = {}
    /\ UNCHANGED <<nextId, selectedMissing, everSolved, queue, stored, setItemThrows>>

\* Every reducer operation, on arbitrary arguments.
\* normalizePhrase is applied to a phrase (handleSolve: to the guess and to the text)
canonicalize(input) ==
    /\ result' = normalizePhrase(input)
    /\ lastOp' = Op("normalizePhrase", <<input>>)
    /\ UNCHANGED <<state, nextId, firstReport, selectedMissing, everSolved, queue, stored, setItemThrows, mounted>>

\* maskPhrase is applied to the text of a word
mask(phrase) ==
    /\ result' = maskPhrase(phrase)
    /\ lastOp' = Op("maskPhrase", <<phrase>>)
    /\ UNCHANGED <<state, nextId, firstReport, selectedMissing, everSolved, queue, stored, setItemThrows, mounted>>

\* AdminView renders the text of a word of the list while the answers are hidden
previewWord(text) ==
    /\ result' = maskText(text)
    /\ lastOp' = Op("maskText", <<text>>)
    /\ UNCHANGED <<state, nextId, firstReport, selectedMissing, everSolved, queue, stored, setItemThrows, mounted>>

(* The queue of the state hook: setState puts its argument in the queue,   *)
(* and the next render goes through the queue in order, applying an        *)
(* updater to the state that the entries before it gave.                   *)

\* the updater that an operation hands to update, applied to s when ids were made:
\* the new state and the ids made after it
runUpdater(op, s, ids) ==
    CASE op.name = "addPlayer" ->
            [state |-> addPlayerFn(s, op.args[1], id("p", ids.p)),
             ids |-> [ids EXCEPT !.p = @ + 1]]
      [] op.name = "removePlayer" ->
            [state |-> removePlayerFn(s, op.args[1]), ids |-> ids]
      [] op.name = "adjustScore" ->
            [state |-> adjustScoreFn(s, op.args[1], op.args[2]), ids |-> ids]

\* Mutant: setState(fn(state)): the updater is applied at once to the state of the
\* last render, and its value is put in the queue.
update_closesOverState(q, op) ==
    Append(q, [kind |-> "value", op |-> op, value |-> runUpdater(op, state, nextId).state])

\* update(fn): setState((prev) => fn(prev))
update(q, op) == Append(q, [kind |-> "updater", op |-> op])

\* setState(value)
setStateValue(q, op, value) == Append(q, [kind |-> "value", op |-> op, value |-> value])

\* the render goes through the queue
RECURSIVE processQueue(_, _, _)
processQueue(q, s, ids) ==
    IF q = <<>> THEN [state |-> s, ids |-> ids]
    ELSE LET r == IF Head(q).kind = "updater" THEN runUpdater(Head(q).op, s, ids)
                  ELSE [state |-> Head(q).value, ids |-> ids]
         IN  processQueue(Tail(q), r.state, r.ids)

\* an operation is called while the state of the last render is on screen
dispatch(op) ==
    /\ mounted
    /\ queue' = update(queue, op)
    /\ UNCHANGED <<state, result, lastOp, nextId, firstReport, selectedMissing, everSolved,
                   stored, setItemThrows, mounted>>

\* resetAll, the confirm dialog accepted: setState(defaultState)
dispatchResetAll ==
    /\ mounted
    /\ queue' = setStateValue(queue, Op("resetAll", <<TRUE>>), defaultState)
    /\ UNCHANGED <<state, result, lastOp, nextId, firstReport, selectedMissing, everSolved,
                   stored, setItemThrows, mounted>>

\* React renders: the queue is applied and the new state is on screen
render ==
    /\ queue # <<>>
    /\ state' = processQueue(queue, state, nextId).state
    /\ nextId' = processQueue(queue, state, nextId).ids
    /\ queue' = <<>>
    /\ lastOp' = Op("render", [i \in 1..Len(queue) |-> queue[i].op])
    /\ saveEffect(state' # state)
    /\ result' = NoResult
    /\ UNCHANGED <<firstReport, selectedMissing, everSolved>>

\* localStorage stops taking writes: private mode, or the quota is used up
storageFails ==
    /\ mounted
    /\ ~setItemThrows
    /\ setItemThrows' = TRUE
    /\ lastOp' = Op("storageFails", <<>>)
    /\ UNCHANGED <<state, result, nextId, firstReport, selectedMissing, everSolved, queue, stored, mounted>>

\* localStorage takes writes again
storageRecovers ==
    /\ mounted
    /\ setItemThrows
    /\ setItemThrows' = FALSE
    /\ lastOp' = Op("storageRecovers", <<>>)
    /\ UNCHANGED <<state, result, nextId, firstReport, selectedMissing, everSolved, queue, stored, mounted>>

(* The presentation layer: GameView and AdminView hand the operations to   *)
(* their controls.  The tab and the intro overlay can be left at any time  *)
(* and change no state; a cancelled confirm dialog changes nothing.        *)

\* AdminView: gameStatus === "playing"
isLocked == state.gameStatus = "playing"

\* AdminView: sets.find((s) => s.id === activeSetId) is defined
activeSetShown == \E i \in 1..Len(state.sets) : state.sets[i].id = state.activeSetId

\* AdminView: the words of the active set, by order
sorted == SortByOrder(SelectSeq(state.words, LAMBDA w : w.setId = state.activeSetId))

\* GameView renders the board: neither the setup nor the final-scores screen
boardShown == state.gameStatus = "playing" /\ Len(state.puzzles) # 0

\* GameView renders the guess controls: currentPuzzle?.solved is not true
guessControlsShown == boardShown /\ ~(HasCurrent(state) /\ Current(state).solved)

\* GameView: words.find((w) => w.id === currentPuzzle.wordId) is defined
HasCurrentWord ==
    /\ HasCurrent(state)
    /\ \E i \in 1..Len(state.words) : state.words[i].id = Current(state).wordId

currentWord ==
    state.words[CHOOSE i \in 1..Len(state.words) :
                    /\ state.words[i].id = Current(state).wordId
                    /\ \A j \in 1..(i - 1) : state.words[j].id # Current(state).wordId]

handleCreateSet(setNameDraft) ==
    /\ ~isLocked
    /\ setNameDraft # ""
    /\ createSet(setNameDraft)

\* the delete button of a set of the list, the confirm dialog accepted
handleDeleteSet(setId) ==
    /\ ~isLocked
    /\ setId \in SetIds(state)
    /\ deleteSet(setId)

\* a click on a set of the list
clickSet(setId) ==
    /\ setId \in SetIds(state)
    /\ selectSet(setId)

\* Mutant: the add button is not disabled while a game runs.
handleAdd_unlocked(draft, themeDraft) ==
    /\ activeSetShown
    /\ trim(draft) # <<>>
    /\ addWord(trim(draft), themeDraft)

handleAdd(draft, themeDraft) ==
    /\ ~isLocked
    /\ activeSetShown
    /\ trim(draft) # <<>>
    /\ addWord(trim(draft), themeDraft)

\* the up and down buttons of row idx of the word list
clickMoveWord(idx, direction) ==
    /\ ~isLocked
    /\ activeSetShown
    /\ idx \in 0..(Len(sorted) - 1)
    /\ direction = "up" => idx # 0
    /\ direction = "down" => idx # Len(sorted) - 1
    /\ moveWord(sorted[idx + 1].id, direction)

\* the delete button of row idx of the word list
clickDeleteWord(idx) ==
    /\ ~isLocked
    /\ activeSetShown
    /\ idx \in 0..(Len(sorted) - 1)
    /\ deleteWord(sorted[idx + 1].id)

\* the button of a set in the start list, shown while no game runs
clickStartSet(setId) ==
    /\ state.gameStatus # "playing"
    /\ setId \in SetIds(state)
    /\ \E i \in 1..Len(state.words) : state.words[i].setId = setId
    /\ startGame(setId)

\* End Game of AdminView (while playing) and of the board of GameView
clickEndGame ==
    /\ state.gameStatus = "playing"
    /\ endGame

clickNext ==
    /\ boardShown
    /\ state.currentPuzzleIndex < Len(state.puzzles) - 1
    /\ nextPuzzle

clickPrev ==
    /\ boardShown
    /\ state.currentPuzzleIndex > 0
    /\ prevPuzzle

\* letterGuess holds at most one letter; a letter already placed is not handed on
handleLetterGuess(letterGuess) ==
    /\ guessControlsShown
    /\ toLowerCase(letterGuess) \in LowerLetters
    /\ ~(HasCurrent(state)
          /\ (\/ Includes(Current(state).revealedLetters, toLowerCase(letterGuess))
              \/ Includes(Current(state).wrongLetters, toLowerCase(letterGuess))))
    /\ guessLetter(toLowerCase(letterGuess))

\* the guess is compared with the text of the current word, and onSolvePuzzle is
\* called when their normal forms are equal
handleSolve(solveGuess) ==
    LET guess == trim(solveGuess)
        correct == normalizePhrase(guess) = normalizePhrase(currentWord.text)
    IN  /\ guessControlsShown
        /\ state' = IF guess # <<>> /\ HasCurrentWord /\ correct
                     THEN solvePuzzleFn(state) ELSE state
        /\ lastOp' = Op("handleSolve", <<solveGuess>>)
        /\ saveEffect(state' # state)
        /\ result' = NoResult
        /\ UNCHANGED <<nextId, firstReport, selectedMissing, everSolved, queue>>

Next ==
    \/ IdsMade < MaxIds /\ \E name \in Names : addPlayer(name)
    \/ \E playerId \in PlayerIdArgs : removePlayer(playerId)
    \/ \E playerId \in PlayerIdArgs, delta \in Deltas : adjustScore(playerId, delta)
    \/ IdsMade < MaxIds /\ \E name \in Names : createSet(name)
    \/ \E setId \in SetIdArgs : deleteSet(setId)
    \/ \E setId \in SetIdArgs : selectSet(setId)
    \/ IdsMade < MaxIds /\ \E text \in Texts, theme \in Themes : addWord(text, theme)
    \/ \E wordId \in WordIdArgs : deleteWord(wordId)
    \/ \E wordId \in WordIdArgs, direction \in Directions : moveWord(wordId, direction)
    \/ \E setId \in SetIdArgs : startGame(setId)
    \/ endGame
    \/ \E letter \in Letters : guessLetter(letter)
    \/ solvePuzzle
    \/ nextPuzzle
    \/ prevPuzzle
    \/ \E ok \in BOOLEAN : resetAll(ok)

Spec == Init /\ [][Next]_vars

\* One set is filled, ordered and played: the operations that write words'
\* order, puzzles, currentPuzzleIndex and gameStatus, on the words of one set.
NextGame ==
    \/ nextId.s = 1 /\ \E name \in Names : createSet(name)
    \/ nextId.w <= MaxGameWords /\ \E text \in Texts, theme \in Themes : addWord(text, theme)
    \/ \E wordId \in Generated("w", nextId.w), direction \in Directions :
            moveWord(wordId, direction)
    \/ \E setId \in Generated("s", nextId.s) : startGame(setId)
    \/ endGame
    \/ \E letter \in GameLetters : guessLetter(letter)
    \/ solvePuzzle
    \/ nextPuzzle
    \/ prevPuzzle
    \/ \E ok \in BOOLEAN : resetAll(ok)

SpecGame == Init /\ [][NextGame]_vars

\* The word bank is edited: sets and their words are created, selected,
\* ordered and deleted, next to a player and the puzzles of a started game.
NextBank ==
    \/ nextId.p = 1 /\ \E name \in Names : addPlayer(name)
    \/ nextId.s <= MaxBankSets /\ \E name \in Names : createSet(name)
    \/ \E setId \in Generated("s", nextId.s) : deleteSet(setId)
    \/ \E setId \in Generated("s", nextId.s) : selectSet(setId)
    \/ nextId.w <= MaxBankWords /\ \E text \in BankTexts, theme \in Themes : addWord(text, theme)
    \/ \E wordId \in Generated("w", nextId.w) : deleteWord(wordId)
    \/ \E wordId \in Generated("w", nextId.w), direction \in Directions :
            moveWord(wordId, direction)
    \/ \E setId \in Generated("s", nextId.s) : startGame(setId)

SpecBank == Init /\ [][NextBank]_vars

\* Players keep scores while the words of one set are played and the game is
\* ended.
NextScore ==
    \/ nextId.p <= MaxScorePlayers /\ \E name \in Names : addPlayer(name)
    \/ \E playerId \in Generated("p", nextId.p), delta \in Deltas : adjustScore(playerId, delta)
    \/ nextId.s = 1 /\ \E name \in Names : createSet(name)
    \/ nextId.w <= MaxScoreWords /\ \E text \in BankTexts, theme \in Themes : addWord(text, theme)
    \/ \E setId \in Generated("s", nextId.s) : startGame(setId)
    \/ endGame
    \/ \E letter \in GameLetters : guessLetter(letter)
    \/ solvePuzzle
    \/ nextPuzzle

SpecScore == Init /\ [][NextScore]_vars

\* a key that may be missing with any of the values S
Optional(S) == { [has |-> FALSE] } \cup { [has |-> TRUE, v |-> x] : x \in S }

\* the object of the keys that are there
MakeObject(opts) == [k \in { q \in DOMAIN opts : opts[q].has } |-> opts[k].v]

\* a word of a stored value: without or with theme; without setId (a legacy word), with
\* the empty setId, the id of a stored set or an id of no set
StoredWordsAt(i) ==
    { MakeObject([id |-> [has |-> TRUE, v |-> IF i = 1 THEN "w_a" ELSE "w_b"],
                  text |-> [has |-> TRUE, v |-> <<"C", "A", "T">>],
                  order |-> [has |-> TRUE, v |-> i],
                  theme |-> theme,
                  setId |-> setId]) :
        theme \in Optional({"th"}), setId \in Optional({"", "s_a", "s_x"}) }

RECURSIVE StoredWordSeqs(_)
StoredWordSeqs(n) ==
    IF n = 0 THEN { <<>> }
    ELSE StoredWordSeqs(n - 1) \cup
         { Append(ws, w) : ws \in { x \in StoredWordSeqs(n - 1) : Len(x) = n - 1 },
                           w \in StoredWordsAt(n) }

StoredSets ==
    { <<>>, <<[id |-> "s_a", name |-> "n"]>>,
      <<[id |-> "s_a", name |-> "n"], [id |-> "s_b", name |-> "n"]>> }

StoredPuzzles ==
    { <<[wordId |-> "w_a", revealedLetters |-> <<"c">>, solved |-> FALSE]>>,
      <<[wordId |-> "w_a", revealedLetters |-> <<"c">>, wrongLetters |-> <<"z">>,
         solved |-> FALSE]>> }

\* What may be found under STORAGE_KEY: nothing, a text that is no JSON, null, or an
\* object with any of the keys of the state missing.
StoredItems ==
    {NoItem, InvalidJson, JsonNull} \cup
    { JsonObject(MakeObject(
        [version |-> [has |-> TRUE, v |-> 1],
         players |-> players, sets |-> sets, words |-> words, activeSetId |-> activeSetId,
         gameStatus |-> gameStatus, currentPuzzleIndex |-> currentPuzzleIndex,
         puzzles |-> puzzles])) :
        players \in Optional({ <<[id |-> "p_a", name |-> "n", score |-> 1]>> }),
        sets \in Optional(StoredSets),
        words \in Optional(StoredWordSeqs(MaxStoredWords)),
        activeSetId \in Optional({"s_a", "s_x"}),
        gameStatus \in Optional({"playing"}),
        currentPuzzleIndex \in Optional({0, 1}),
        puzzles \in Optional(StoredPuzzles) }

\* The page is opened on whatever the storage holds, and reloaded.
InitLoad ==
    /\ state = defaultState
    /\ result = NoResult
    /\ lastOp = Op("init", <<>>)
    /\ nextId = [p |-> 1, s |-> 1, w |-> 1]
    /\ firstReport = {}
    /\ selectedMissing = FALSE
    /\ queue = <<>>
    /\ everSolved = {}
    /\ stored \in StoredItems
    /\ setItemThrows = FALSE
    /\ mounted = FALSE

NextLoad ==
    \/ load
    \/ unload

SpecLoad == InitLoad /\ [][NextLoad]_vars

\* upper and lower case of a letter, a digit, a space, a hyphen, both apostrophes
PhraseChars == {"A", "a", "1", " ", "-", "'", CurlyApostrophe}

\* the phrases of n characters
RECURSIVE PhrasesOfLen(_)
PhrasesOfLen(n) ==
    IF n = 0 THEN { <<>> }
    ELSE { Append(p, ch) : p \in PhrasesOfLen(n - 1), ch \in PhraseChars }

Phrases == UNION { PhrasesOfLen(n) : n \in 0..MaxPhraseLen }

\* A phrase was typed (the text of a word, the guess of a solution).
InitText ==
    /\ state = defaultState
    /\ result = NoResult
    /\ \E typed \in Phrases : lastOp = Op("type", <<typed>>)
    /\ nextId = [p |-> 1, s |-> 1, w |-> 1]
    /\ firstReport = {}
    /\ selectedMissing = FALSE
    /\ queue = <<>>
    /\ everSolved = {}
    /\ stored = stringify(defaultState)
    /\ setItemThrows = FALSE
    /\ mounted = TRUE

\* The text functions are applied to the phrase typed.
NextText ==
    \/ \E input \in Phrases : lastOp = Op("type", <<input>>) /\ canonicalize(input)
    \/ \E phrase \in Phrases : lastOp = Op("type", <<phrase>>) /\ mask(phrase)
    \/ \E text \in Phrases : lastOp = Op("type", <<text>>) /\ previewWord(text)

SpecText == InitText /\ [][NextText]_vars

\* A player, a set of one word, a game and its guesses, while localStorage stops and
\* resumes taking writes.
NextSave ==
    \/ nextId.p = 1 /\ \E name \in Names : addPlayer(name)
    \/ \E playerId \in Generated("p", nextId.p), delta \in Deltas : adjustScore(playerId, delta)
    \/ nextId.s = 1 /\ \E name \in Names : createSet(name)
    \/ nextId.w = 1 /\ \E text \in BankTexts, theme \in Themes : addWord(text, theme)
    \/ \E setId \in Generated("s", nextId.s) : startGame(setId)
    \/ endGame
    \/ \E letter \in GameLetters : guessLetter(letter)
    \/ solvePuzzle
    \/ storageFails
    \/ storageRecovers

SpecSave == Init /\ [][NextSave]_vars

\* One set is played, the game is ended and the set is played again, while
\* localStorage stops and resumes taking writes: the stored item may be that of an
\* earlier game.
NextReplay ==
    \/ nextId.s = 1 /\ \E name \in Names : createSet(name)
    \/ nextId.w <= MaxReplayWords
          /\ \E text \in BankTexts, theme \in Themes : addWord(text, theme)
    \/ \E setId \in Generated("s", nextId.s) : clickStartSet(setId)
    \/ clickEndGame
    \/ \E letter \in Letters : guessLetter(letter)
    \/ solvePuzzle
    \/ nextPuzzle
    \/ storageFails
    \/ storageRecovers

SpecReplay == Init /\ [][NextReplay]_vars

\* the calls of addPlayer waiting in the queue
PendingPlayers ==
    Cardinality({ i \in 1..Len(queue) : queue[i].op.name = "addPlayer" })

\* Operations on players and resetAll are called one after the other, up to MaxQueue
\* of them before React renders.
NextBatch ==
    \/ /\ Len(queue) < MaxQueue
       /\ nextId.p + PendingPlayers <= MaxBatchPlayers
       /\ \E name \in Names : dispatch(Op("addPlayer", <<name>>))
    \/ /\ Len(queue) < MaxQueue
       /\ \E playerId \in Generated("p", nextId.p) : dispatch(Op("removePlayer", <<playerId>>))
    \/ /\ Len(queue) < MaxQueue
       /\ \E i \in 1..Len(state.players), delta \in Deltas :
            /\ state.players[i].score \in (-MaxScore)..MaxScore
            /\ dispatch(Op("adjustScore", <<state.players[i].id, delta>>))
    \/ Len(queue) < MaxQueue /\ dispatchResetAll
    \/ render

SpecBatch == Init /\ [][NextBatch]_vars

\* The names, texts and guesses typed in SpecUI: a text that ends in a hyphen, and
\* guesses with and without it.
UITexts == { <<"A">>, <<"a", " ", "-">> }
UIGuesses == { <<>>, <<" ">>, <<"a">>, <<"a", "-">>, <<"c">> }
UILetters == {"A", "c"}

\* The host edits sets and words in AdminView, starts and ends games, and the
\* puzzles are played in GameView.
NextUI ==
    \/ nextId.s <= MaxUISets /\ \E setNameDraft \in Names : handleCreateSet(setNameDraft)
    \/ \E setId \in Generated("s", nextId.s) : handleDeleteSet(setId)
    \/ \E setId \in Generated("s", nextId.s) : clickSet(setId)
    \/ nextId.w <= MaxUIWords
          /\ \E draft \in UITexts, themeDraft \in Themes : handleAdd(draft, themeDraft)
    \/ \E idx \in 0..(MaxUIWords - 1), direction \in Directions : clickMoveWord(idx, direction)
    \/ \E idx \in 0..(MaxUIWords - 1) : clickDeleteWord(idx)
    \/ \E setId \in Generated("s", nextId.s) : clickStartSet(setId)
    \/ clickEndGame
    \/ clickNext
    \/ clickPrev
    \/ \E letterGuess \in UILetters : handleLetterGuess(letterGuess)
    \/ \E solveGuess \in UIGuesses : handleSolve(solveGuess)
    \/ \E ok \in BOOLEAN : resetAll(ok)

SpecUI == Init /\ [][NextUI]_vars

----------------------------------------------------------------------------
(* Import of a workbook (App.importExcel).  A workbook is what XLSX.read and
   sheet_to_json hand over: the sheets in the order of SheetNames, each with
   its rows; a row is a record of its filled cells, keyed by column header.
   A file XLSX.read rejects is a workbook that is not readable. *)

TextCols == <<"Word/Phrase", "Word", "Phrase", "Text", "Answer">>
OrderCols == <<"Order", "#", "No", "Number">>
ThemeCols == <<"Theme", "Category", "Topic">>
NameCols == <<"Name", "Player">>
ScoreCols == <<"Score", "Points">>

\* findCol(row, ...names) !== undefined; the headers of the rows drawn here are
\* spelled as the names are, so the case-insensitive lookup finds nothing more
HasCol(row, names) == \E i \in 1..Len(names) : names[i] \in DOMAIN row

\* findCol(row, ...names): the cell under the first of the names the row has
findCol(row, names) ==
    LET first == CHOOSE i \in 1..Len(names) :
                    /\ names[i] \in DOMAIN row
                    /\ \A j \in 1..(i - 1) : names[j] \notin DOMAIN row
    IN  row[names[first]]

\* sheetName.toLowerCase() === "players"
IsPlayersSheet(sheetName) == sheetName \in {"Players", "players", "PLAYERS"}

\* rows.forEach((row) => ...) of the Players sheet, from row i on
RECURSIVE importPlayerRows(_, _, _)
importPlayerRows(rows, i, acc) ==
    IF i > Len(rows) THEN acc
    ELSE
        LET row == rows[i]
            \* names and themes are drawn trimmed, as in addPlayer and addWord
            named == HasCol(row, NameCols) /\ ~Falsy(findCol(row, NameCols))
            player == [id |-> id("p", acc.ids.p),
                       name |-> findCol(row, NameCols),
                       \* scoreVal ? parseInt(scoreVal, 10) : 0
                       score |-> IF HasCol(row, ScoreCols)
                                 THEN findCol(row, ScoreCols) ELSE 0]
        IN  importPlayerRows(rows, i + 1,
                IF named
                THEN [acc EXCEPT !.players = Append(@, player), !.ids.p = @ + 1]
                ELSE acc)

\* rows.forEach((row, idx) => ...) of a set sheet, from row i = idx + 1 on
RECURSIVE importWordRows(_, _, _, _)
importWordRows(rows, i, setId, acc) ==
    IF i > Len(rows) THEN acc
    ELSE
        LET row == rows[i]
            usable == HasCol(row, TextCols) /\ trim(findCol(row, TextCols)) # <<>>
            word == [id |-> id("w", acc.ids.w),
                     text |-> trim(findCol(row, TextCols)),
                     \* themeVal?.trim() || ""
                     theme |-> IF HasCol(row, ThemeCols)
                               THEN findCol(row, ThemeCols) ELSE "",
                     setId |-> setId,
                     \* orderVal ? parseInt(orderVal, 10) : idx + 1
                     order |-> IF HasCol(row, OrderCols)
                               THEN findCol(row, OrderCols) ELSE i]
        IN  importWordRows(rows, i + 1, setId,
                IF usable
                THEN [acc EXCEPT !.words = Append(@, word), !.ids.w = @ + 1]
                ELSE acc)

\* wb.SheetNames.forEach((sheetName) => ...), from sheet k on: every sheet but
\* Players becomes a set, whether or not one of its rows becomes a word
RECURSIVE importSheets(_, _, _)
importSheets(sheets, k, acc) ==
    IF k > Len(sheets) THEN acc
    ELSE
        LET sheet == sheets[k]
            setObj == [id |-> id("s", acc.ids.s), name |-> sheet.name]
        IN  importSheets(sheets, k + 1,
                IF IsPlayersSheet(sheet.name)
                THEN importPlayerRows(sheet.rows, 1, acc)
                ELSE importWordRows(sheet.rows, 1, setObj.id,
                        [acc EXCEPT !.sets = Append(@, setObj), !.ids.s = @ + 1]))

\* importedSets, importedWords, importedPlayers and the ids left after making them
imported(wb, ids) ==
    importSheets(wb.sheets, 1,
                 [sets |-> <<>>, words |-> <<>>, players |-> <<>>, ids |-> ids])

\* the confirm dialog is reached: the file was read and holds a word or a player
importOffered(wb, ids) ==
    /\ wb.readable
    /\ ~(Len(imported(wb, ids).words) = 0 /\ Len(imported(wb, ids).players) = 0)

\* the updater of importExcel
importExcelFn(prev, imp) ==
    [prev EXCEPT
        !.sets = IF Len(imp.sets) > 0 THEN imp.sets ELSE prev.sets,
        !.words = IF Len(imp.words) > 0 THEN imp.words ELSE prev.words,
        !.activeSetId = IF Len(imp.sets) > 0 THEN imp.sets[1].id ELSE prev.activeSetId,
        !.players = IF Len(imp.players) > 0 THEN imp.players ELSE prev.players]

\* reader.onload of importExcel; ok is the answer to window.confirm
importExcel(wb, ok) ==
    LET imp == imported(wb, nextId)
        applied == importOffered(wb, nextId) /\ ok
    IN  /\ state' = IF applied THEN importExcelFn(state, imp) ELSE state
        /\ nextId' = IF wb.readable THEN imp.ids ELSE nextId
        /\ lastOp' = Op("importExcel", <<wb, ok>>)
        /\ saveEffect(applied)
        /\ result' = NoResult
        /\ UNCHANGED <<firstReport, selectedMissing, everSolved, queue>>

MaxImportSheets == 2   \* SpecImport: sheets of a workbook
MaxImportIds == 3      \* SpecImport: ids made before the last workbook is read

\* The sheets drawn: a set sheet with a word, set sheets whose rows give no word
\* (a blank cell, no text column), and Players sheets with and without a player.
ImportSheets ==
    { [name |-> "A", rows |-> << [Word |-> <<"A">>, Theme |-> "th"] >>],
      [name |-> "B", rows |-> << [Word |-> <<" ">>], [Note |-> <<"a">>] >>],
      [name |-> "Players", rows |-> << [Name |-> "n", Score |-> 1] >>],
      [name |-> "Players", rows |-> << [Score |-> 1] >>] }

Workbooks ==
    { [readable |-> FALSE, sheets |-> <<>>] } \cup
    { [readable |-> TRUE, sheets |-> sheets] :
        sheets \in UNION { [1..n -> ImportSheets] : n \in 0..MaxImportSheets } }

\* The host works in AdminView and GameView as in SpecUI, adds players, and picks
\* files to import; the Data buttons of AdminView are enabled in every status.
NextImport ==
    \/ nextId.s <= MaxUISets /\ IdsMade < MaxImportIds
          /\ \E setNameDraft \in Names : handleCreateSet(setNameDraft)
    \/ \E setId \in Generated("s", nextId.s) : clickSet(setId)
    \/ nextId.w <= MaxUIWords /\ IdsMade < MaxImportIds
          /\ \E themeDraft \in Themes : handleAdd(<<"A">>, themeDraft)
    \/ \E idx \in 0..(MaxUIWords - 1) : clickDeleteWord(idx)
    \/ nextId.p <= 1 /\ IdsMade < MaxImportIds /\ \E name \in Names : addPlayer(name)
    \/ \E playerId \in Generated("p", nextId.p) : removePlayer(playerId)
    \/ \E setId \in Generated("s", nextId.s) : clickStartSet(setId)
    \/ clickEndGame
    \/ clickNext
    \/ clickPrev
    \/ \E letterGuess \in UILetters : handleLetterGuess(letterGuess)
    \/ \E solveGuess \in {<<"a">>, <<"c">>} : handleSolve(solveGuess)
    \/ \E ok \in BOOLEAN : resetAll(ok)
    \/ IdsMade <= MaxImportIds /\ \E wb \in Workbooks, ok \in BOOLEAN : importExcel(wb, ok)

SpecImport == Init /\ [][NextImport]_vars

----------------------------------------------------------------------------
(* The variant with one word bank (src/App.tsx): no sets, and every word   *)
(* carries a used flag.  Its operations on players, deleteWord, endGame,   *)
(* guessLetter, nextPuzzle, prevPuzzle and resetAll read as those of the   *)
(* set-based App and are the actions above; the operations below differ.   *)

OneBank_addWordFn(s, text, theme, newId) ==
    LET maxOrder == MaxOrder(s.words)
        entry == [id |-> newId, text |-> text, theme |-> theme,
                  order |-> maxOrder + 1, used |-> FALSE]
    IN  [s EXCEPT !.words = Append(s.words, entry)]

OneBank_moveWordFn(s, wordId, direction) ==
    LET byOrder == SortByOrder(s.words)
        idx == FindIndexById(byOrder, wordId)
        swapIdx == IF direction = "up" THEN idx - 1 ELSE idx + 1
    IN  IF idx = -1 THEN s
        ELSE IF swapIdx < 0 \/ swapIdx >= Len(byOrder) THEN s
        ELSE
            LET currentOrder == byOrder[idx + 1].order
                swapOrder == byOrder[swapIdx + 1].order
            IN  [s EXCEPT !.words =
                    [i \in 1..Len(s.words) |->
                        LET w == s.words[i]
                        IN  IF w.id = wordId THEN [w EXCEPT !.order = swapOrder]
                            ELSE IF w.id = byOrder[swapIdx + 1].id
                                 THEN [w EXCEPT !.order = currentOrder]
                                 ELSE w]]

\* Mutant: the game is built from all the words of the bank.
OneBank_startGameFn_allWords(s) ==
    LET words == SortByOrder(s.words)
    IN  IF Len(words) = 0 THEN s
        ELSE [s EXCEPT !.gameStatus = "playing",
                       !.currentPuzzleIndex = 0,
                       !.puzzles = [i \in 1..Len(words) |-> NewPuzzle(words[i])]]

OneBank_startGameFn(s) ==
    LET unusedWords == SortByOrder(SelectSeq(s.words, LAMBDA w : ~w.used))
    IN  IF Len(unusedWords) = 0 THEN s
        ELSE
            LET newPuzzles == [i \in 1..Len(unusedWords) |-> NewPuzzle(unusedWords[i])]
            IN  [s EXCEPT !.gameStatus = "playing",
                          !.currentPuzzleIndex = 0,
                          !.puzzles = newPuzzles]

OneBank_solvePuzzleFn(s) ==
    IF ~HasCurrent(s) THEN s
    ELSE IF Current(s).solved THEN s
    ELSE
        LET puzzle == Current(s)
            newWords == [i \in 1..Len(s.words) |->
                            IF s.words[i].id = puzzle.wordId
                            THEN [s.words[i] EXCEPT !.used = TRUE]
                            ELSE s.words[i]]
        IN  [s EXCEPT !.puzzles[s.currentPuzzleIndex + 1].solved = TRUE,
                      !.words = newWords]

\* usedVal?.toLowerCase() === "yes" || usedVal?.toLowerCase() === "true"
IsYes(usedVal) == usedVal \in {"yes", "Yes", "YES", "true", "True", "TRUE"}

UsedCols == <<"Used", "Done", "Completed">>

\* rows.forEach((row, idx) => ...) of the Words sheet, from row i = idx + 1 on
RECURSIVE OneBank_importWordRows(_, _, _)
OneBank_importWordRows(rows, i, acc) ==
    IF i > Len(rows) THEN acc
    ELSE
        LET row == rows[i]
            usable == HasCol(row, TextCols) /\ trim(findCol(row, TextCols)) # <<>>
            word == [id |-> id("w", acc.ids.w),
                     text |-> trim(findCol(row, TextCols)),
                     theme |-> IF HasCol(row, ThemeCols)
                               THEN findCol(row, ThemeCols) ELSE "",
                     order |-> IF HasCol(row, OrderCols)
                               THEN findCol(row, OrderCols) ELSE i,
                     used |-> HasCol(row, UsedCols) /\ IsYes(findCol(row, UsedCols))]
        IN  OneBank_importWordRows(rows, i + 1,
                IF usable
                THEN [acc EXCEPT !.words = Append(@, word), !.ids.w = @ + 1]
                ELSE acc)

\* wb.Sheets[name] is defined
HasSheet(wb, name) == \E k \in 1..Len(wb.sheets) : wb.sheets[k].name = name

SheetNamed(wb, name) ==
    wb.sheets[CHOOSE k \in 1..Len(wb.sheets) : wb.sheets[k].name = name]

\* importedWords and importedPlayers and the ids left after making them: the
\* words of the sheet Words, or of the first sheet when there is no such sheet,
\* and the players of the sheet Players
OneBank_imported(wb, ids) ==
    LET start == [words |-> <<>>, players |-> <<>>, ids |-> ids]
        withWords ==
            IF HasSheet(wb, "Words")
            THEN OneBank_importWordRows(SheetNamed(wb, "Words").rows, 1, start)
            ELSE IF Len(wb.sheets) > 0
            THEN OneBank_importWordRows(wb.sheets[1].rows, 1, start)
            ELSE start
    IN  IF HasSheet(wb, "Players")
        THEN importPlayerRows(SheetNamed(wb, "Players").rows, 1, withWords)
        ELSE withWords

OneBank_importOffered(wb, ids) ==
    /\ wb.readable
    /\ ~(Len(OneBank_imported(wb, ids).words) = 0
            /\ Len(OneBank_imported(wb, ids).players) = 0)

OneBank_importExcelFn(prev, imp) ==
    [prev EXCEPT
        !.words = IF Len(imp.words) > 0 THEN imp.words ELSE prev.words,
        !.players = IF Len(imp.players) > 0 THEN imp.players ELSE prev.players]

OneBank_addWord(text, theme) ==
    /\ state' = OneBank_addWordFn(state, text, theme, id("w", nextId.w))
    /\ nextId' = [nextId EXCEPT !.w = @ + 1]
    /\ lastOp' = Op("OneBank_addWord", <<text, theme>>)
    /\ saveEffect(TRUE)
    /\ result' = NoResult
    /\ UNCHANGED <<firstReport, selectedMissing, everSolved, queue>>

OneBank_moveWord(wordId, direction) ==
    /\ state' = OneBank_moveWordFn(state, wordId, direction)
    /\ lastOp' = Op("OneBank_moveWord", <<wordId, direction>>)
    /\ saveEffect(state' # state)
    /\ result' = NoResult
    /\ UNCHANGED <<nextId, firstReport, selectedMissing, everSolved, queue>>

OneBank_startGame ==
    /\ state' = OneBank_startGameFn(state)
    /\ lastOp' = Op("OneBank_startGame", <<>>)
    /\ saveEffect(state' # state)
    /\ firstReport' = IF \E i \in 1..Len(state.words) : ~state.words[i].used
                      THEN {} ELSE firstReport
    /\ result' = NoResult
    /\ UNCHANGED <<nextId, selectedMissing, everSolved, queue>>

OneBank_solvePuzzle ==
    /\ state' = OneBank_solvePuzzleFn(state)
    /\ lastOp' = Op("OneBank_solvePuzzle", <<>>)
    /\ saveEffect(state' # state)
    /\ result' = NoResult
    /\ everSolved' = IF HasCurrent(state) /\ ~Current(state).solved
                     THEN everSolved \cup {Current(state).wordId}
                     ELSE everSolved
    /\ UNCHANGED <<nextId, firstReport, selectedMissing, queue>>

OneBank_importExcel(wb, ok) ==
    LET imp == OneBank_imported(wb, nextId)
        applied == OneBank_importOffered(wb, nextId) /\ ok
    IN  /\ state' = IF applied THEN OneBank_importExcelFn(state, imp) ELSE state
        /\ nextId' = IF wb.readable THEN imp.ids ELSE nextId
        /\ lastOp' = Op("OneBank_importExcel", <<wb, ok>>)
        /\ saveEffect(applied)
        /\ result' = NoResult
        /\ UNCHANGED <<firstReport, selectedMissing, everSolved, queue>>

MaxOneBankWords == 2   \* SpecOneBank: words made before the last one is added or imported

\* The workbooks drawn: what exportExcel writes for a bank of a used and an unused
\* word, a sheet of another name, a Players sheet alone, and an unreadable file.
OneBank_Workbooks ==
    { [readable |-> FALSE, sheets |-> <<>>],
      [readable |-> TRUE,
       sheets |-> << [name |-> "Words",
                      rows |-> << ("Order" :> 1) @@ ("Theme" :> "th") @@ ("Used" :> "Yes")
                                      @@ ("Word/Phrase" :> <<"C", "A", "T">>),
                                  ("Order" :> 2) @@ ("Theme" :> "") @@ ("Used" :> "No")
                                      @@ ("Word/Phrase" :> <<"C", "A", "T">>) >>],
                     [name |-> "Players", rows |-> << [Name |-> "n", Score |-> 1] >>] >>],
      [readable |-> TRUE,
       sheets |-> << [name |-> "Sheet1", rows |-> << [Word |-> <<"C", "A", "T">>] >>] >>],
      [readable |-> TRUE,
       sheets |-> << [name |-> "Players", rows |-> << [Name |-> "n"] >>] >>] }

\* Every operation of the variant may be called in every state.
NextOneBank ==
    \/ nextId.w <= MaxOneBankWords
          /\ \E text \in BankTexts, theme \in Themes : OneBank_addWord(text, theme)
    \/ \E wordId \in Generated("w", nextId.w) : deleteWord(wordId)
    \/ \E wordId \in Generated("w", nextId.w), direction \in Directions :
            OneBank_moveWord(wordId, direction)
    \/ OneBank_startGame
    \/ endGame
    \/ \E letter \in GameLetters : guessLetter(letter)
    \/ OneBank_solvePuzzle
    \/ nextPuzzle
    \/ prevPuzzle
    \/ nextId.p <= 1 /\ \E name \in Names : addPlayer(name)
    \/ \E playerId \in Generated("p", nextId.p) : removePlayer(playerId)
    \/ \E i \in 1..Len(state.players), delta \in Deltas :
            /\ state.players[i].score + delta \in 0..MaxScore
            /\ adjustScore(state.players[i].id, delta)
    \/ \E ok \in BOOLEAN : resetAll(ok)
    \/ nextId.w <= MaxOneBankWords /\ nextId.p <= 2
          /\ \E wb \in OneBank_Workbooks, ok \in BOOLEAN : OneBank_importExcel(wb, ok)

SpecOneBank == Init /\ [][NextOneBank]_vars

----------------------------------------------------------------------------
(* What the claims speak of. *)

Lower(letter) == toLowerCase(letter)

\* the letters already classified on a puzzle
Guessed(puzzle) == Range(puzzle.revealedLetters) \cup Range(puzzle.wrongLetters)

WordIds(s) == { s.words[i].id : i \in 1..Len(s.words) }

WordOf(s, wordId) == CHOOSE w \in Range(s.words) : w.id = wordId

\* the 0-based indices of text whose character equals letter, case-insensitively
Matching(text, letter) ==
    { i \in 0..(Len(text) - 1) : toLowerCase(text[i + 1]) = toLowerCase(letter) }

\* list is the ascending list of the members of set
AscendingListOf(list, set) ==
    /\ Range(list) = set
    /\ \A i, j \in 1..Len(list) : i < j => list[i] < list[j]

NoDuplicates(list) == \A i, j \in 1..Len(list) : i # j => list[i] # list[j]

\* the step is a guessLetter(letter) call
IsGuess(letter) == lastOp'.name = "guessLetter" /\ lastOp'.args[1] = letter

PlayerIds(s) == { s.players[i].id : i \in 1..Len(s.players) }

\* the words of s whose setId is setId
WordsOfSet(s, setId) == { w \in Range(s.words) : w.setId = setId }

\* the order values used in a set
OrdersOfSet(s, setId) == { w.order : w \in WordsOfSet(s, setId) }

\* the greatest member of a non-empty set of numbers
Maximum(S) == CHOOSE m \in S : \A x \in S : x <= m

\* the least member of a non-empty set of numbers
Minimum(S) == CHOOSE m \in S : \A x \in S : m <= x

----------------------------------------------------------------------------
(* C1: guessing a letter that was already guessed on the current puzzle    *)
(* changes nothing and returns the report the first guess of that letter   *)
(* returned.                                                               *)
C1_RepeatedGuessSameReport ==
    [][\A letter \in Letters :
        (/\ IsGuess(letter)
         /\ HasCurrent(state)
         /\ Lower(letter) \in Guessed(Current(state)))
        => /\ state' = state
           /\ \E f \in firstReport :
                /\ f.idx = state.currentPuzzleIndex
                /\ f.letter = Lower(letter)
                /\ result' = f.report]_vars

(* C2: whenever puzzles is non-empty, 0 <= currentPuzzleIndex < puzzles.length. *)
C2_IndexInRange ==
    Len(state.puzzles) > 0 =>
        /\ 0 <= state.currentPuzzleIndex
        /\ state.currentPuzzleIndex < Len(state.puzzles)

\* nextPuzzle was called on the last of several puzzles
C2_Witness ==
    /\ lastOp.name = "nextPuzzle"
    /\ Len(state.puzzles) > 1
    /\ state.currentPuzzleIndex = Len(state.puzzles) - 1

(* C3: puzzles is empty only in setup or ended; while playing there is at  *)
(* least one puzzle.                                                       *)
C3_PlayingHasPuzzles ==
    /\ state.puzzles = <<>> => state.gameStatus \in {"setup", "ended"}
    /\ state.gameStatus = "playing" => Len(state.puzzles) >= 1

\* a game runs although its words were deleted after the start
C3_Witness ==
    /\ state.gameStatus = "playing"
    /\ lastOp.name = "deleteWord"
    /\ state.words = <<>>
    /\ Len(state.puzzles) >= 1

(* C4, as claimed: every WordEntry.setId is the id of a set in sets, also  *)
(* after select set with an arbitrary id followed by add word.             *)
C4_EveryWordReferencesSet ==
    \A i \in 1..Len(state.words) : state.words[i].setId \in SetIds(state)

(* C4, amended: as long as select set was only called with ids of sets     *)
(* present in sets, every WordEntry.setId is the id of a set in sets.      *)
C4_WordsReferenceSetsIfSelectValid ==
    ~selectedMissing =>
        \A i \in 1..Len(state.words) : state.words[i].setId \in SetIds(state)

\* a word was added to a set that exists
C4_Witness ==
    /\ ~selectedMissing
    /\ lastOp.name = "addWord"
    /\ Len(state.words) >= 1
    /\ state.words[Len(state.words)].setId \in SetIds(state)

(* C5, as claimed: activeSetId is unset or the id of a set in sets after   *)
(* any sequence of reducer operations.                                     *)
C5_ActiveSetExists ==
    state.activeSetId = Undefined \/ state.activeSetId \in SetIds(state)

(* C5, amended: as long as select set was only called with ids of sets     *)
(* present in sets, activeSetId is unset or the id of a set in sets.       *)
C5_ActiveSetExistsIfSelectValid ==
    ~selectedMissing =>
        (state.activeSetId = Undefined \/ state.activeSetId \in SetIds(state))

\* a set was deleted and the active set is one that remains
C5_Witness ==
    /\ ~selectedMissing
    /\ lastOp.name = "deleteSet"
    /\ state.activeSetId \in SetIds(state)
    /\ lastOp.args[1] # state.activeSetId
    /\ lastOp.args[1] \in Generated("s", nextId.s)

(* C6: in every puzzle revealedLetters and wrongLetters are disjoint and   *)
(* neither holds a letter twice.                                           *)
C6_LettersClassifiedOnce ==
    \A i \in 1..Len(state.puzzles) :
        LET puzzle == state.puzzles[i]
        IN  /\ Range(puzzle.revealedLetters) \cap Range(puzzle.wrongLetters) = {}
            /\ NoDuplicates(puzzle.revealedLetters)
            /\ NoDuplicates(puzzle.wrongLetters)

\* a letter was guessed again in the other case, on a puzzle with letters of both kinds
C6_Witness ==
    /\ lastOp.name = "guessLetter"
    /\ lastOp.args[1] = "T"
    /\ HasCurrent(state)
    /\ Current(state).revealedLetters = <<"t">>
    /\ Current(state).wrongLetters = <<"z">>

\* the report and the classification the claim gives for a guess of letter in text
C7_Classified(s, letter, text) ==
    LET old == Current(s)
        new == Current(state')
    IN  /\ AscendingListOf(result'.positions, Matching(text, letter))
        /\ IF Matching(text, letter) # {}
           THEN /\ result'.correct
                /\ Range(new.revealedLetters) = Range(old.revealedLetters) \cup {Lower(letter)}
                /\ new.wrongLetters = old.wrongLetters
           ELSE /\ ~result'.correct
                /\ result'.positions = <<>>
                /\ Range(new.wrongLetters) = Range(old.wrongLetters) \cup {Lower(letter)}
                /\ new.revealedLetters = old.revealedLetters

\* letter has not been guessed on the current puzzle, which is unsolved
C7_FirstGuess(s, letter) ==
    /\ HasCurrent(s)
    /\ ~Current(s).solved
    /\ Lower(letter) \notin Guessed(Current(s))

(* C7, as claimed: a first guess of a letter on an unsolved current puzzle *)
(* reports the ascending list of all indices of the word's text that match *)
(* the letter case-insensitively, and adds the lowercased letter to        *)
(* revealedLetters if there is one and to wrongLetters otherwise (a word   *)
(* that is gone has no text, so no index matches).                         *)
C7_FirstGuessClassified ==
    [][\A letter \in Letters :
        (IsGuess(letter) /\ C7_FirstGuess(state, letter))
        => HasCurrent(state') /\
           C7_Classified(state, letter,
                IF Current(state).wordId \in WordIds(state)
                THEN WordOf(state, Current(state).wordId).text ELSE <<>>)]_vars

(* C7, amended: the same for a puzzle whose word is still in words; when   *)
(* the word is gone the guess changes nothing and reports                  *)
(* {correct: false, positions: []}.                                        *)
C7_FirstGuessClassifiedIfWordPresent ==
    [][\A letter \in Letters :
        (IsGuess(letter) /\ C7_FirstGuess(state, letter))
        => IF Current(state).wordId \in WordIds(state)
           THEN HasCurrent(state') /\
                C7_Classified(state, letter, WordOf(state, Current(state).wordId).text)
           ELSE state' = state /\ result' = NoResult]_vars

\* "T" was guessed first on "To t": positions 0 and 3, t revealed
C7_Witness ==
    /\ lastOp.name = "guessLetter"
    /\ lastOp.args[1] = "T"
    /\ result = [correct |-> TRUE, positions |-> <<0, 3>>]
    /\ HasCurrent(state)
    /\ Current(state).revealedLetters = <<"t">>

(* C8: guess letter and solve puzzle change nothing when there is no       *)
(* current puzzle or the current puzzle is already solved.                 *)
C8_NoPlayOnMissingOrSolved ==
    [][(/\ lastOp'.name \in {"guessLetter", "solvePuzzle"}
        /\ (~HasCurrent(state) \/ Current(state).solved))
       => state' = state]_vars

\* a fresh letter was guessed on a solved puzzle
C8_Witness ==
    /\ lastOp.name = "guessLetter"
    /\ HasCurrent(state)
    /\ Current(state).solved
    /\ Lower(lastOp.args[1]) \notin Guessed(Current(state))

(* C9: solve puzzle on an unsolved current puzzle sets solved on that      *)
(* puzzle and changes nothing else: not its letters, no other puzzle, not  *)
(* currentPuzzleIndex, words, sets, players or gameStatus.                 *)
C9_SolveMarksCurrentOnly ==
    [][(/\ lastOp'.name = "solvePuzzle"
        /\ HasCurrent(state)
        /\ ~Current(state).solved)
       => /\ Len(state'.puzzles) = Len(state.puzzles)
          /\ \A i \in 1..Len(state.puzzles) :
                IF i = state.currentPuzzleIndex + 1
                THEN /\ state'.puzzles[i].solved = TRUE
                     /\ state'.puzzles[i].wordId = state.puzzles[i].wordId
                     /\ state'.puzzles[i].revealedLetters = state.puzzles[i].revealedLetters
                     /\ state'.puzzles[i].wrongLetters = state.puzzles[i].wrongLetters
                ELSE state'.puzzles[i] = state.puzzles[i]
          /\ state'.currentPuzzleIndex = state.currentPuzzleIndex
          /\ state'.words = state.words
          /\ state'.sets = state.sets
          /\ state'.players = state.players
          /\ state'.gameStatus = state.gameStatus
          /\ state'.activeSetId = state.activeSetId]_vars

\* the second of two puzzles was solved with a letter on it, the first is unsolved
C9_Witness ==
    /\ lastOp.name = "solvePuzzle"
    /\ Len(state.puzzles) = 2
    /\ state.currentPuzzleIndex = 1
    /\ state.puzzles[2].solved
    /\ Guessed(state.puzzles[2]) # {}
    /\ ~state.puzzles[1].solved
    /\ Guessed(state.puzzles[1]) # {}

C11_StartGameWithoutWordsIsNoOp ==
    [][(/\ lastOp'.name = "startGame"
        /\ \A i \in 1..Len(state.words) : state.words[i].setId # lastOp'.args[1])
       => state' = state]_vars

\* start game was called on an empty set that exists while the game of another set runs
C11_Witness ==
    /\ lastOp.name = "startGame"
    /\ lastOp.args[1] \in SetIds(state)
    /\ \A i \in 1..Len(state.words) : state.words[i].setId # lastOp.args[1]
    /\ state.gameStatus = "playing"
    /\ state.activeSetId # lastOp.args[1]
    /\ Len(state.puzzles) >= 1

(* C12: end game, from any gameStatus and any puzzle progress, gives       *)
(* gameStatus ended, no puzzles and currentPuzzleIndex 0, and leaves       *)
(* players with their scores, sets, words and activeSetId as they were.    *)
C12_EndGameClearsGameOnly ==
    [][lastOp'.name = "endGame"
       => /\ state'.gameStatus = "ended"
          /\ state'.puzzles = <<>>
          /\ state'.currentPuzzleIndex = 0
          /\ state'.players = state.players
          /\ state'.sets = state.sets
          /\ state'.words = state.words
          /\ state'.activeSetId = state.activeSetId]_vars

\* a game on two words was ended with two players holding different scores, none of them 0
C12_Witness ==
    /\ lastOp.name = "endGame"
    /\ state.gameStatus = "ended"
    /\ state.puzzles = <<>>
    /\ Len(state.words) = 2
    /\ Len(state.players) = 2
    /\ state.players[1].score = 1
    /\ state.players[2].score = -1

(* C13: next puzzle raises currentPuzzleIndex by exactly 1 unless it is    *)
(* puzzles.length - 1 or puzzles is empty, prev puzzle lowers it by        *)
(* exactly 1 unless it is 0; at a boundary the state is unchanged, and no  *)
(* other field changes in either.                                          *)
C13_NextPrevMoveByOne ==
    [][/\ lastOp'.name = "nextPuzzle" =>
            IF state.puzzles = <<>> \/ state.currentPuzzleIndex = Len(state.puzzles) - 1
            THEN state' = state
            ELSE /\ state'.currentPuzzleIndex = state.currentPuzzleIndex + 1
                 /\ state' = [state EXCEPT !.currentPuzzleIndex = state'.currentPuzzleIndex]
       /\ lastOp'.name = "prevPuzzle" =>
            IF state.currentPuzzleIndex = 0
            THEN state' = state
            ELSE /\ state'.currentPuzzleIndex = state.currentPuzzleIndex - 1
                 /\ state' = [state EXCEPT !.currentPuzzleIndex = state'.currentPuzzleIndex]]_vars

\* prev puzzle was called on the first of two puzzles after the second was played
C13_Witness ==
    /\ lastOp.name = "prevPuzzle"
    /\ Len(state.puzzles) = 2
    /\ state.currentPuzzleIndex = 0
    /\ Guessed(state.puzzles[2]) # {}

(* C14: add word changes nothing when there is no active set; otherwise   *)
(* it appends exactly one word, whose setId is activeSetId and whose order *)
(* is 1 if the active set has no words and else the greatest order among   *)
(* the words of that set plus 1, and leaves the words there were as they   *)
(* were.                                                                   *)
C14_AddWordAppendsWithNextOrder ==
    [][lastOp'.name = "addWord"
       => IF state.activeSetId = Undefined
          THEN state' = state
          ELSE LET orders == OrdersOfSet(state, state.activeSetId)
                   added == state'.words[Len(state'.words)]
               IN  /\ Len(state'.words) = Len(state.words) + 1
                   /\ SubSeq(state'.words, 1, Len(state.words)) = state.words
                   /\ added.setId = state.activeSetId
                   /\ added.order = IF orders = {} THEN 1 ELSE Maximum(orders) + 1]_vars

\* a word was added to a set whose first word had been deleted: two words, orders 2 and 3
C14_Witness ==
    /\ lastOp.name = "addWord"
    /\ Len(state.words) = 2
    /\ state.words[1].id = id("w", 2)
    /\ state.words[1].order = 2
    /\ state.words[2].setId = state.words[1].setId
    /\ state.words[2].setId = state.activeSetId
    /\ state.words[2].order = 3

(* C15: after any sequence of reducer operations from the default state,   *)
(* no two words with the same setId have the same order.                   *)
C15_OrderUniqueInSet ==
    \A i, j \in 1..Len(state.words) :
        (i # j /\ state.words[i].setId = state.words[j].setId)
        => state.words[i].order # state.words[j].order

\* a word was added to a set from which a word had been deleted, after a move in that set
C15_Witness ==
    /\ lastOp.name = "addWord"
    /\ Len(state.words) = 2
    /\ state.words[1].setId = state.words[2].setId
    /\ state.words[1].id = id("w", 1)
    /\ state.words[1].order = 2
    /\ state.words[2].order = 3

\* the word of the set of word that comes next to word in direction by order
C16_Neighbours(s, word, direction) ==
    LET others == { w \in WordsOfSet(s, word.setId) :
                        IF direction = "up" THEN w.order < word.order
                        ELSE w.order > word.order }
        nearest == IF direction = "up" THEN Maximum({ w.order : w \in others })
                   ELSE Minimum({ w.order : w \in others })
    IN  { w \in others : w.order = nearest }

(* C16: move word(id, direction) on a word with a neighbour in that        *)
(* direction in the order of its set exchanges the order values of those   *)
(* two words: every other word keeps its order, no word changes set, text  *)
(* or id, the order values used in the set are the same, and the puzzles   *)
(* of a running game are not reordered.                                    *)
C16_MoveWordSwapsTwoOrders ==
    [][\A wordId \in WordIds(state), direction \in Directions :
        (/\ lastOp'.name = "moveWord"
         /\ lastOp'.args = <<wordId, direction>>
         /\ C16_Neighbours(state, WordOf(state, wordId), direction) # {})
        => LET word == WordOf(state, wordId)
               other == CHOOSE w \in C16_Neighbours(state, word, direction) : TRUE
           IN  /\ Len(state'.words) = Len(state.words)
               /\ \A i \in 1..Len(state.words) :
                    LET w == state.words[i]
                    IN  state'.words[i] =
                            IF w.id = wordId THEN [w EXCEPT !.order = other.order]
                            ELSE IF w.id = other.id THEN [w EXCEPT !.order = word.order]
                            ELSE w
               /\ OrdersOfSet(state', word.setId) = OrdersOfSet(state, word.setId)
               /\ state'.puzzles = state.puzzles
               /\ state' = [state EXCEPT !.words = state'.words]]_vars

\* the second of the three words of a set was moved up while the game of that set runs
C16_Witness ==
    /\ lastOp.name = "moveWord"
    /\ lastOp.args = <<id("w", 2), "up">>
    /\ Len(state.words) = 3
    /\ \A i \in 1..3 : state.words[i].id = id("w", i) /\ state.words[i].setId = state.words[1].setId
    /\ state.words[1].order = 2
    /\ state.words[2].order = 1
    /\ state.words[3].order = 3
    /\ state.gameStatus = "playing"
    /\ Len(state.puzzles) = 3
    /\ state.puzzles[1].wordId = id("w", 1)

\* word has the least order of the words of its set
C17_FirstOfSet(s, word) == \A w \in WordsOfSet(s, word.setId) : word.order <= w.order

\* word has the greatest order of the words of its set
C17_LastOfSet(s, word) == \A w \in WordsOfSet(s, word.setId) : w.order <= word.order

(* C17: remove player, adjust score, delete word and move word with an id  *)
(* that matches nothing, and move word up on the first word or down on the *)
(* last word of its set, change no field of the state.                     *)
C17_InvalidTargetIsNoOp ==
    [][(\/ /\ lastOp'.name \in {"removePlayer", "adjustScore"}
           /\ lastOp'.args[1] \notin PlayerIds(state)
        \/ /\ lastOp'.name \in {"deleteWord", "moveWord"}
           /\ lastOp'.args[1] \notin WordIds(state)
        \/ /\ lastOp'.name = "moveWord"
           /\ lastOp'.args[1] \in WordIds(state)
           /\ \/ /\ lastOp'.args[2] = "up"
                 /\ C17_FirstOfSet(state, WordOf(state, lastOp'.args[1]))
              \/ /\ lastOp'.args[2] = "down"
                 /\ C17_LastOfSet(state, WordOf(state, lastOp'.args[1])))
       => state' = state]_vars

\* move word down was called on the second of two words of a set, added last and ordered last
C17_Witness ==
    /\ lastOp.name = "moveWord"
    /\ lastOp.args = <<id("w", 2), "down">>
    /\ Len(state.words) = 2
    /\ state.words[1].setId = state.words[2].setId
    /\ state.words[1].id = id("w", 1)
    /\ state.words[1].order = 1
    /\ state.words[2].id = id("w", 2)
    /\ state.words[2].order = 2

(* C18: delete set(id) removes that set and exactly the words whose setId  *)
(* is id; every other set and every word of another set remains, unchanged *)
(* and in the same relative sequence, and players are unchanged.           *)
C18_DeleteSetRemovesSetAndItsWords ==
    [][lastOp'.name = "deleteSet"
       => /\ state'.sets = SelectSeq(state.sets, LAMBDA x : x.id # lastOp'.args[1])
          /\ state'.words = SelectSeq(state.words, LAMBDA w : w.setId # lastOp'.args[1])
          /\ state'.players = state.players]_vars

\* the second set was deleted with a player present; the first and the third word, both
\* of the first set, remain
C18_Witness ==
    /\ lastOp = Op("deleteSet", <<id("s", 2)>>)
    /\ Len(state.players) = 1
    /\ SetIds(state) = {id("s", 1)}
    /\ Len(state.words) = 2
    /\ state.words[1].id = id("w", 1)
    /\ state.words[2].id = id("w", 3)
    /\ \A i \in 1..2 : state.words[i].setId = id("s", 1)

(* C19: when delete set removes the active set, activeSetId becomes the id *)
(* of a different set that still exists, or unset if no set remains; when  *)
(* it removes a set that is not active, activeSetId is unchanged.          *)
C19_DeleteSetMovesActiveSet ==
    [][\A setId \in SetIds(state) :
        (lastOp'.name = "deleteSet" /\ lastOp'.args[1] = setId)
        => IF state.activeSetId = setId
           THEN IF SetIds(state') = {}
                THEN state'.activeSetId = Undefined
                ELSE /\ state'.activeSetId \in SetIds(state')
                     /\ state'.activeSetId # setId
           ELSE state'.activeSetId = state.activeSetId]_vars

\* the first of two sets was deleted and the second is the active set
C19_Witness ==
    /\ lastOp = Op("deleteSet", <<id("s", 1)>>)
    /\ ~selectedMissing
    /\ nextId.s = 3
    /\ SetIds(state) = {id("s", 2)}
    /\ state.activeSetId = id("s", 2)

C21_MigrationIdempotent ==
    (mounted /\ lastOp.name = "load")
    => migrateToV1(JsonObject(state), id("s", nextId.s)) = state

\* a value of a legacy word and a word of empty setId was loaded: the Default Set was made
C21_Witness ==
    /\ mounted
    /\ lastOp.name = "load"
    /\ Len(state.sets) = 1
    /\ state.sets[1] = [id |-> id("s", 1), name |-> "Default Set"]
    /\ Len(state.words) = 2
    /\ state.words[1].setId = id("s", 1)
    /\ state.words[2].setId = ""

\* the positions of the words of a parsed value that have no setId
LackingSetId(rawWords) == {i \in 1..Len(rawWords) : "setId" \notin DOMAIN rawWords[i]}

(* C22: when the persisted value has words without setId and no sets, the  *)
(* migrated state has exactly one set, named "Default Set", activeSetId is *)
(* its id and every word that had no setId holds its id; when sets exist,  *)
(* every word without setId gets the id of the first set and sets is kept. *)
C22_DefaultSetOrFirstSet ==
    [][(lastOp'.name = "load" /\ stored \notin {NoItem, InvalidJson, JsonNull})
       => LET rawWords == ArrayOrEmpty(stored.value, "words")
              rawSets == ArrayOrEmpty(stored.value, "sets")
          IN  /\ (LackingSetId(rawWords) # {} /\ Len(rawSets) = 0)
                    => /\ Len(state'.sets) = 1
                       /\ state'.sets[1].name = "Default Set"
                       /\ state'.activeSetId = state'.sets[1].id
                       /\ \A i \in LackingSetId(rawWords) :
                              state'.words[i].setId = state'.sets[1].id
              /\ Len(rawSets) > 0
                    => /\ state'.sets = rawSets
                       /\ \A i \in LackingSetId(rawWords) :
                              state'.words[i].setId = rawSets[1].id]_vars

\* two legacy words and no set were loaded: both are in the active Default Set
C22_Witness ==
    /\ mounted
    /\ lastOp.name = "load"
    /\ state.sets = <<[id |-> id("s", 1), name |-> "Default Set"]>>
    /\ state.activeSetId = id("s", 1)
    /\ Len(state.words) = 2
    /\ \A i \in 1..2 : state.words[i].setId = id("s", 1)

(* C23: for an arbitrary persisted value the migrated state is valid: every *)
(* word's setId is the id of a set in sets, activeSetId if set is the id   *)
(* of a set in sets, every puzzle has wrongLetters and every word a theme, *)
(* and currentPuzzleIndex is in [0, puzzles.length) when puzzles is not    *)
(* empty.                                                                  *)
C23_MigratedStateValid ==
    (mounted /\ lastOp.name = "load")
    => LET setIds == {Get(state.sets[i], "id") : i \in 1..Len(state.sets)}
       IN  /\ \A i \in 1..Len(state.words) :
                  /\ Get(state.words[i], "setId") \in setIds
                  /\ Get(state.words[i], "theme") # Undefined
           /\ Get(state, "activeSetId") # Undefined => state.activeSetId \in setIds
           /\ \A i \in 1..Len(state.puzzles) : "wrongLetters" \in DOMAIN state.puzzles[i]
           /\ Len(state.puzzles) > 0
                  => state.currentPuzzleIndex \in 0..(Len(state.puzzles) - 1)

\* the collections of the state that migrateToV1 defaults
Collections == {"players", "sets", "words", "puzzles"}

\* a load step gives the default state for no item and for an item that does not parse,
\* and for a parsed object the defaults of the missing keys in ks, of gameStatus and
\* of currentPuzzleIndex
LoadDefaults(ks) ==
    /\ stored \in {NoItem, InvalidJson} => state' = defaultState
    /\ stored \notin {NoItem, InvalidJson, JsonNull}
          => /\ \A k \in ks \ DOMAIN stored.value : state'[k] = <<>>
             /\ "gameStatus" \notin DOMAIN stored.value => state'.gameStatus = "setup"
             /\ "currentPuzzleIndex" \notin DOMAIN stored.value
                    => state'.currentPuzzleIndex = 0

(* C24 as stated: loading gives the default state when the stored value is *)
(* absent or does not parse; for a parsed value missing players, sets,     *)
(* words or puzzles become empty sequences, a missing gameStatus becomes   *)
(* setup and a missing currentPuzzleIndex becomes 0.                       *)
C24_LoadDefaultsAllEmpty ==
    [][lastOp'.name = "load" => LoadDefaults(Collections)]_vars

(* C24, amended: the same, except that missing sets become the one         *)
(* synthesized Default Set, and not the empty sequence, when a stored word *)
(* has no setId.                                                           *)
C24_LoadDefaults ==
    [][lastOp'.name = "load"
       => /\ LoadDefaults(IF SynthesizesDefaultSet(stored)
                            THEN Collections \ {"sets"} ELSE Collections)
          /\ (stored \notin {NoItem, InvalidJson} /\ SynthesizesDefaultSet(stored))
                => state'.sets = <<[id |-> id("s", nextId.s), name |-> "Default Set"]>>]_vars

\* one legacy word was loaded and nothing else: the Default Set, every other key defaulted
C24_Witness ==
    /\ mounted
    /\ lastOp.name = "load"
    /\ state.sets = <<[id |-> id("s", 1), name |-> "Default Set"]>>
    /\ Len(state.words) = 1
    /\ state.words[1].setId = id("s", 1)
    /\ state.players = <<>>
    /\ state.puzzles = <<>>
    /\ state.gameStatus = "setup"
    /\ state.currentPuzzleIndex = 0

(* C25: adjustScore(id, delta) adds the signed delta to the score of the    *)
(* player of that id and of no other, without floor or ceiling, and leaves *)
(* every other field of the state as it was; no other operation except     *)
(* resetAll changes the score of a player that stays.                      *)
C25_OnlyAdjustScoreChangesScores ==
    [][/\ lastOp'.name = "adjustScore"
          => /\ Len(state'.players) = Len(state.players)
             /\ \A i \in 1..Len(state.players) :
                    state'.players[i] =
                        IF state.players[i].id = lastOp'.args[1]
                        THEN [state.players[i] EXCEPT !.score = @ + lastOp'.args[2]]
                        ELSE state.players[i]
             /\ [state' EXCEPT !.players = state.players] = state
       /\ lastOp'.name \notin {"adjustScore", "resetAll"}
          => \A i \in 1..Len(state.players) : \A j \in 1..Len(state'.players) :
                state'.players[j].id = state.players[i].id
                    => state'.players[j].score = state.players[i].score]_vars

\* the first of two players was taken below zero while the second holds a point
C25_Witness ==
    /\ lastOp.name = "adjustScore"
    /\ lastOp.args = <<id("p", 1), -1>>
    /\ Len(state.players) = 2
    /\ state.players[1] = [id |-> id("p", 1), name |-> "n", score |-> -1]
    /\ state.players[2].score = 1

(* C26: normalize is idempotent: normalize(normalize(p)) = normalize(p) for *)
(* every phrase p of letters, digits, spaces, apostrophes and other        *)
(* punctuation, also with punctuation at its start or end.                 *)
C26_NormalizeIdempotent ==
    lastOp.name = "normalizePhrase" => normalizePhrase(result) = result

(* C28: mask replaces every letter and digit of the text by the block      *)
(* glyph and leaves every other character, space or punctuation, verbatim  *)
(* at its position, so that the masked text is as long as the text, and    *)
(* the host's preview of a word shows the punctuation of its text.         *)
C28_MaskKeepsPunctuation ==
    LET text == lastOp.args[1]
    IN  /\ lastOp.name = "maskPhrase"
            => /\ Len(result) = Len(text)
               /\ \A i \in 1..Len(text) :
                      result[i] = IF IsAlnum(text[i]) THEN BlockGlyph ELSE text[i]
        /\ lastOp.name = "maskText"
            => /\ Len(result) = Len(text)
               /\ \A i \in 1..Len(text) : ~IsAlnum(text[i]) => result[i] = text[i]

\* the phrase without case and punctuation: its lower-case letters, digits and spaces
WithoutCaseAndPunctuation(p) ==
    SelectSeq([i \in 1..Len(p) |-> toLowerCase(p[i])],
              LAMBDA ch : IsLowerAlnum(ch) \/ IsSpace(ch))

\* p and q differ only in case, punctuation or runs of white space: they hold the
\* same words of letters and digits
SameAnswer(p, q) ==
    trim(collapseWhitespace(WithoutCaseAndPunctuation(p)))
        = trim(collapseWhitespace(WithoutCaseAndPunctuation(q)))

(* C27: through GameView a puzzle becomes solved only by a non-empty guess  *)
(* whose normal form is the normal form of the text of the current word (a *)
(* guess of another normal form never calls solvePuzzle), and a guess that *)
(* differs from the text only in case, punctuation or runs of white space  *)
(* is accepted.                                                            *)
C27_SolvedByMatchingGuessOnly ==
    [][/\ (\E i \in 1..Len(state'.puzzles) :
                /\ state'.puzzles[i].solved
                /\ i <= Len(state.puzzles) => ~state.puzzles[i].solved)
          => /\ lastOp'.name = "handleSolve"
             /\ trim(lastOp'.args[1]) # <<>>
             /\ HasCurrentWord
             /\ normalizePhrase(lastOp'.args[1]) = normalizePhrase(currentWord.text)
       /\ (/\ lastOp'.name = "handleSolve"
           /\ HasCurrentWord
           /\ trim(lastOp'.args[1]) # <<>>
           /\ SameAnswer(lastOp'.args[1], currentWord.text))
          => state'.puzzles[state.currentPuzzleIndex + 1].solved]_vars

\* the operations behind the locked controls of AdminView and its start list
LockedIntents == {"createSet", "deleteSet", "addWord", "deleteWord", "moveWord", "startGame"}

(* C30: while gameStatus is playing the controls refuse the edits: create   *)
(* set, delete set, add word, delete word, move word and start game are    *)
(* not dispatched, and from the start of a game to its end sets and words  *)
(* stay as they are.                                                       *)
C30_EditsLockedWhilePlaying ==
    [][state.gameStatus = "playing"
       => /\ lastOp'.name \notin LockedIntents
          /\ state'.gameStatus = "playing"
                => state'.sets = state.sets /\ state'.words = state.words]_vars

\* a game of a set of two words runs and the host clicked that set in AdminView: the
\* rows of both words are rendered with their buttons disabled
C30_Witness ==
    /\ state.gameStatus = "playing"
    /\ lastOp = Op("selectSet", <<id("s", 1)>>)
    /\ activeSetShown
    /\ Len(sorted) = 2
    /\ Len(state.puzzles) = 2

\* the state that operation op gives from state s when ids were made so far
Applied(op, s, ids) ==
    CASE op.name = "addPlayer" -> addPlayerFn(s, op.args[1], id("p", ids.p))
      [] op.name = "adjustScore" -> adjustScoreFn(s, op.args[1], op.args[2])
      [] op.name = "createSet" -> createSetFn(s, op.args[1], id("s", ids.s))
      [] op.name = "addWord" -> addWordFn(s, op.args[1], op.args[2], id("w", ids.w))
      [] op.name = "startGame" -> startGameFn(s, op.args[1])
      [] op.name = "endGame" -> endGameFn(s)
      [] op.name = "guessLetter" -> guessLetterFn(s, op.args[1]).state
      [] op.name = "solvePuzzle" -> solvePuzzleFn(s)
      [] op.name = "removePlayer" -> removePlayerFn(s, op.args[1])
      [] op.name = "resetAll" -> IF op.args[1] THEN defaultState ELSE s
      [] OTHER -> s

(* C29: a save that fails (setItem throws) neither changes the state in     *)
(* memory nor keeps a later transition from being applied: whatever saves  *)
(* failed, the App stays mounted, each transition gives the state it gives *)
(* when saves succeed, and a failed save leaves the stored item as it was. *)
C29_FailedSaveKeepsPipeline ==
    [][/\ mounted'
       /\ state' = Applied(lastOp', state, nextId)
       /\ setItemThrows /\ setItemThrows' => stored' = stored]_vars

\* a player was added and given a point while no write was taken: the stored item
\* still holds no player
C29_Witness ==
    /\ setItemThrows
    /\ mounted
    /\ lastOp.name = "adjustScore"
    /\ Len(state.players) = 1
    /\ state.players[1].score = 1
    /\ stored.value.players = <<>>

(* C31: no play progress survives across games: after end game followed   *)
(* by start game on a set, puzzles holds one puzzle for every word of the  *)
(* set, each with empty revealedLetters, empty wrongLetters and solved     *)
(* false, whatever was guessed or solved in the game before.               *)
C31_NoProgressAcrossGames ==
    [][(/\ lastOp.name = "endGame"
        /\ lastOp'.name = "startGame"
        /\ WordsOfSet(state, lastOp'.args[1]) # {})
       => /\ Len(state'.puzzles) = Cardinality(WordsOfSet(state, lastOp'.args[1]))
          /\ \A w \in WordsOfSet(state, lastOp'.args[1]) :
                \E k \in 1..Len(state'.puzzles) : state'.puzzles[k] = NewPuzzle(w)]_vars

\* the second game of a set of two words has started, its puzzles untouched, while
\* the stored item is still that of the first game, with a letter revealed, a
\* letter wrong and the first puzzle solved
C31_Witness ==
    /\ lastOp.name = "startGame"
    /\ state.gameStatus = "playing"
    /\ Len(state.puzzles) = 2
    /\ \A k \in 1..2 : /\ state.puzzles[k].revealedLetters = <<>>
                        /\ state.puzzles[k].wrongLetters = <<>>
                        /\ ~state.puzzles[k].solved
    /\ stored.value.gameStatus = "playing"
    /\ stored.value.puzzles[1].revealedLetters # <<>>
    /\ stored.value.puzzles[1].wrongLetters # <<>>
    /\ stored.value.puzzles[1].solved

\* the ids made once operation op was applied to s
IdsAfter(op, s, ids) ==
    CASE op.name = "addPlayer" -> [ids EXCEPT !.p = @ + 1]
      [] op.name = "createSet" -> [ids EXCEPT !.s = @ + 1]
      [] op.name = "addWord" -> IF Falsy(s.activeSetId) THEN ids ELSE [ids EXCEPT !.w = @ + 1]
      [] OTHER -> ids

\* the state after the operations ops, one after the other, each applied to the state
\* that the one before it gave
RECURSIVE InDispatchOrder(_, _, _)
InDispatchOrder(ops, s, ids) ==
    IF ops = <<>> THEN s
    ELSE InDispatchOrder(Tail(ops), Applied(Head(ops), s, ids), IdsAfter(Head(ops), s, ids))

(* C32: transitions are applied atomically and in dispatch order, each to  *)
(* the state the one before it produced: of intents dispatched back to     *)
(* back before the state is observed again no update is lost, and the      *)
(* state on screen changes in one step from the state before all of them   *)
(* to the state after all of them.                                         *)
C32_UpdatesAppliedInOrder ==
    [][IF queue # <<>> /\ queue' = <<>>
       THEN state' = InDispatchOrder([i \in 1..Len(queue) |-> queue[i].op], state, nextId)
       ELSE state' = state]_vars

\* a player was given a point twice before React rendered, and has two points
C32_Witness ==
    /\ queue = <<>>
    /\ lastOp = Op("render", <<Op("adjustScore", <<id("p", 1), 1>>),
                               Op("adjustScore", <<id("p", 1), 1>>)>>)
    /\ Len(state.players) = 1
    /\ state.players[1].score = 2

(* C33: puzzles is non-empty only while gameStatus is playing: in setup and *)
(* in ended the puzzle list is empty and currentPuzzleIndex is 0.          *)
C33_NoPuzzlesOutsidePlaying ==
    state.gameStatus \in {"setup", "ended"}
        => state.puzzles = <<>> /\ state.currentPuzzleIndex = 0

\* a game of two words was ended and a word was moved afterwards
C33_Witness ==
    /\ state.gameStatus = "ended"
    /\ lastOp.name = "moveWord"
    /\ Len(state.words) = 2
    /\ state.puzzles = <<>>
    /\ state.currentPuzzleIndex = 0

\* the characters of a text, in lower case
LowerCharsOf(text) == { toLowerCase(text[i]) : i \in 1..Len(text) }

(* C34: for every puzzle whose word still exists, each letter of            *)
(* revealedLetters occurs in the text of the word, case-insensitively, no   *)
(* letter of wrongLetters occurs in it, and every stored letter is lower    *)
(* case.                                                                    *)
C34_StoredLettersMatchText ==
    \A k \in 1..Len(state.puzzles) :
        LET puzzle == state.puzzles[k]
        IN  /\ \A letter \in Range(puzzle.revealedLetters) \cup Range(puzzle.wrongLetters) :
                    toLowerCase(letter) = letter
            /\ puzzle.wordId \in WordIds(state)
                    => /\ Range(puzzle.revealedLetters)
                            \subseteq LowerCharsOf(WordOf(state, puzzle.wordId).text)
                       /\ Range(puzzle.wrongLetters)
                            \cap LowerCharsOf(WordOf(state, puzzle.wordId).text) = {}

\* "T" was guessed on "To t" and is stored as the revealed letter "t"
C34_Witness ==
    /\ lastOp = Op("guessLetter", <<"T">>)
    /\ HasCurrent(state)
    /\ Current(state).revealedLetters = <<"t">>
    /\ Current(state).wrongLetters = <<>>
    /\ Current(state).wordId \in WordIds(state)
    /\ WordOf(state, Current(state).wordId).text = <<"T", "o", " ", "t">>

\* list a is the beginning of list b
IsPrefix(a, b) == Len(a) <= Len(b) /\ SubSeq(b, 1, Len(a)) = a

(* C35: within one game, that is on every step but those of start game,     *)
(* end game and reset all, the progress of the puzzles is monotonic:        *)
(* revealedLetters and wrongLetters of a puzzle only grow, solved never     *)
(* goes back from true to false, and the letters of a solved puzzle never   *)
(* change again.                                                            *)
C35_ProgressMonotonic ==
    [][lastOp'.name \notin {"startGame", "endGame", "resetAll"}
       => /\ Len(state'.puzzles) = Len(state.puzzles)
          /\ \A k \in 1..Len(state.puzzles) :
                /\ state'.puzzles[k].wordId = state.puzzles[k].wordId
                /\ IsPrefix(state.puzzles[k].revealedLetters, state'.puzzles[k].revealedLetters)
                /\ IsPrefix(state.puzzles[k].wrongLetters, state'.puzzles[k].wrongLetters)
                /\ state.puzzles[k].solved
                      => state'.puzzles[k] = state.puzzles[k]]_vars

\* a puzzle took a revealed and then a wrong letter and was solved
C35_Witness ==
    /\ lastOp.name = "solvePuzzle"
    /\ HasCurrent(state)
    /\ Current(state).solved
    /\ Current(state).revealedLetters = <<"t">>
    /\ Current(state).wrongLetters = <<"z">>

(* C36: while gameStatus is playing, the wordId of every puzzle is the id   *)
(* of a word in words, whatever the host does in AdminView and GameView     *)
(* during the game, import of a spreadsheet included.                       *)
C36_PuzzlesReferenceWords ==
    state.gameStatus = "playing"
        => \A k \in 1..Len(state.puzzles) : state.puzzles[k].wordId \in WordIds(state)

\* this step is an import the host confirmed for a workbook with a word or a player
ConfirmedImport ==
    /\ lastOp'.name = "importExcel"
    /\ lastOp'.args[2]
    /\ importOffered(lastOp'.args[1], nextId)

(* C37: after a confirmed import the setId of every word is the id of a set *)
(* in sets, and activeSetId, when set, is the id of a set in sets, whatever *)
(* sheets and rows the workbook has.                                        *)
C37_ImportKeepsReferences ==
    [][ConfirmedImport
       => /\ \A i \in 1..Len(state'.words) : state'.words[i].setId \in SetIds(state')
          /\ ~Falsy(state'.activeSetId) => state'.activeSetId \in SetIds(state')]_vars

(* C38: saving and loading again loses nothing: for every state the        *)
(* operations reach from the default state, the serialized state, parsed   *)
(* and migrated, is that state again; no set is made and no word changes   *)
(* its set.                                                                *)
C38_ReloadLossless ==
    migrateToV1(stringify(state), id("s", nextId.s)) = state

\* a game with a revealed and a wrong letter, a player, and no active player
\* (a key JSON.stringify leaves out) was saved and loads as it is
C38_Witness ==
    /\ stored = stringify(state)
    /\ loadFn(stored, id("s", nextId.s)) = state
    /\ state.activePlayerId = Undefined
    /\ "activePlayerId" \notin DOMAIN stored.value
    /\ state.gameStatus = "playing"
    /\ Len(state.players) > 0
    /\ HasCurrent(state)
    /\ Current(state).revealedLetters # <<>>
    /\ Current(state).wrongLetters # <<>>

\* the indices of the words of the bank not marked used
Unused(s) == { i \in 1..Len(s.words) : ~s.words[i].used }

\* solve puzzle on an unsolved puzzle marks it solved and its word used
SolveMarksUsed ==
    (lastOp'.name = "OneBank_solvePuzzle" /\ HasCurrent(state) /\ ~Current(state).solved)
        => /\ Current(state').solved
           /\ \A j \in 1..Len(state'.words) :
                state'.words[j].id = Current(state).wordId => state'.words[j].used

\* start game does nothing without an unused word, and else makes one new puzzle
\* for each unused word and for no other, in ascending order of the words
StartsFromUnused ==
    lastOp'.name = "OneBank_startGame"
        => IF Unused(state) = {} THEN state' = state
           ELSE /\ state'.gameStatus = "playing"
                /\ state'.currentPuzzleIndex = 0
                /\ state'.words = state.words
                /\ Len(state'.puzzles) = Cardinality(Unused(state))
                /\ \A k \in 1..Len(state'.puzzles) :
                      \E i \in Unused(state) : state'.puzzles[k] = NewPuzzle(state.words[i])
                /\ \A i \in Unused(state) :
                      \E k \in 1..Len(state'.puzzles) :
                          state'.puzzles[k].wordId = state.words[i].id
                /\ \A j, k \in 1..Len(state'.puzzles) : \A a, b \in Unused(state) :
                      (/\ j < k
                       /\ state.words[a].id = state'.puzzles[j].wordId
                       /\ state.words[b].id = state'.puzzles[k].wordId)
                          => state.words[a].order <= state.words[b].order

\* a word marked used is still marked used after the step, if it is still there
NoUsedCleared ==
    \A i \in 1..Len(state.words), j \in 1..Len(state'.words) :
        (state.words[i].id = state'.words[j].id /\ state.words[i].used)
            => state'.words[j].used

\* the puzzles of a game that starts hold no word solved before
NoSolvedWordAgain ==
    (lastOp'.name = "OneBank_startGame" /\ Unused(state) # {})
        => \A k \in 1..Len(state'.puzzles) : state'.puzzles[k].wordId \notin everSolved

====
